---- MODULE Spec2Model ----
(***************************************************************************)
(* Roguelike chess rule engine: BoardManager (grid, board operations,      *)
(* expansion, check / checkmate search), Unit (per-kind move generation)   *)
(* and the turn sequencing of BattleScene.                                 *)
(*                                                                         *)
(* Positions are records [row, col] with 0-based coordinates as in the     *)
(* source; the grid is a sequence of rows, so cell (r, c) is               *)
(* grid[r + 1][c + 1].  Unit objects live in the heap `units`; a grid cell *)
(* holds the index of a Unit object or Null.                               *)
(***************************************************************************)
EXTENDS Integers, Sequences, FiniteSets, TLC

VARIABLES
  grid,      \* BoardManager.grid
  rows,      \* BoardManager.rows
  cols,      \* BoardManager.cols
  units,     \* the Unit objects created so far (type, team, position, ...)
  last,      \* the last call made on the board: operation, arguments, result
  ops,       \* number of calls made so far
  scene,     \* BattleScene: selection, scheduled delayedCall timers, running
  run        \* RunState: gold, playerUnits, currentStage, board dimensions

vars == <<grid, rows, cols, units, last, ops, scene, run>>

----------------------------------------------------------------------------
(* Bounds of the model *)

\* the board of a new run (RunState, BoardManager defaults)
DefaultRows == 5
DefaultCols == 5

\* initial board of the board-operation specification (constructor arguments)
InitRows == 2
InitCols == 2
\* number of board calls in one behaviour
MaxOps == 3
\* number of moves made in one behaviour of the check specification
MaxMoves == 1
\* number of player moves in one battle
MaxPlayerMoves == 3
\* number of BOARD_EXPANSION purchases behind the largest board asked about
MaxExpansions == 5
\* the last stage an opponent turn is taken in
MaxStage == 12
\* number of calls made on one Unit object
MaxUnitCalls == 4
MaxPurchases == 7
MaxGoldCalls == 4
MaxRunSteps == 9

----------------------------------------------------------------------------
(* types.ts *)

PLAYER == "PLAYER"
ENEMY == "ENEMY"
Teams == {PLAYER, ENEMY}

PAWN == "PAWN"
ROOK == "ROOK"
KNIGHT == "KNIGHT"
BISHOP == "BISHOP"
QUEEN == "QUEEN"
KING == "KING"

\* an empty cell / a null reference
Null == 0

Pos(r, c) == [row |-> r, col |-> c]

----------------------------------------------------------------------------
(* Unit.ts: the Unit base class *)

\* constructor: no buffs, health 1, not moved
NewUnit(type, team, position) ==
  [type |-> type, team |-> team, position |-> position, buffs |-> <<>>,
   health |-> 1, maxHealth |-> 1, hasMoved |-> FALSE]

SetPosition(U, u, pos) == [U EXCEPT ![u].position = pos]

\* Unit.removeBuff: filter out every buff of the type
RemoveBuff(unit, buffType) ==
  [unit EXCEPT !.buffs = SelectSeq(@, LAMBDA buff : buff # buffType)]

HasBuff(unit, buffType) == \E i \in 1..Len(unit.buffs) : unit.buffs[i] = buffType

Min(a, b) == IF a <= b THEN a ELSE b

Max(a, b) == IF a >= b THEN a ELSE b

\* setHealth that stops at maxHealth only
SetHealthBelowZero(unit, health) ==
  [unit EXCEPT !.health = Min(health, unit.maxHealth)]

\* Unit.setHealth: Math.max(0, Math.min(health, maxHealth))
SetHealth(unit, health) ==
  [unit EXCEPT !.health = Max(0, Min(health, unit.maxHealth))]

\* Unit.isAlive
IsAlive(unit) == unit.health > 0

\* Unit.takeDamage
TakeDamage(unit, damage) ==
  IF HasBuff(unit, "SHIELD") THEN RemoveBuff(unit, "SHIELD")
  ELSE [unit EXCEPT !.health = IF @ - damage <= 0 THEN 0 ELSE @ - damage]

----------------------------------------------------------------------------
(* BoardManager.ts: queries.  A board is the record of the three fields.   *)

Board == [grid |-> grid, rows |-> rows, cols |-> cols]

CreateEmptyGrid(r, c) == [i \in 1..r |-> [j \in 1..c |-> Null]]

IsValidPosition(b, pos) ==
  pos.row >= 0 /\ pos.row < b.rows /\ pos.col >= 0 /\ pos.col < b.cols

\* this.grid[pos.row][pos.col]
Cell(b, pos) == b.grid[pos.row + 1][pos.col + 1]

GetUnit(b, pos) == IF IsValidPosition(b, pos) THEN Cell(b, pos) ELSE Null

SetCell(g, pos, v) == [g EXCEPT ![pos.row + 1][pos.col + 1] = v]

\* the cells of the double loop of getUnitsByTeam, in its row-major order
ScanCells(b) ==
  [k \in 1..(b.rows * b.cols) |->
     b.grid[((k - 1) \div b.cols) + 1][((k - 1) % b.cols) + 1]]

GetUnitsByTeam(b, U, team) ==
  SelectSeq(ScanCells(b), LAMBDA u : u # Null /\ U[u].team = team)

----------------------------------------------------------------------------
(* Unit.ts: move generation.  `u` is the Unit object whose method runs    *)
(* (this), `cur` its currentPos argument.  Moves are sequences, in the     *)
(* order the code pushes them.                                             *)

Step(pos, dir, k) == Pos(pos.row + dir.row * k, pos.col + dir.col * k)

\* Unit.isValidMove without captures (mutation of IsValidMove)
IsValidMoveToEmpty(b, U, u, pos) ==
  IsValidPosition(b, pos) /\ GetUnit(b, pos) = Null

\* Unit.isValidMove: in bounds and not occupied by a unit of this.team
IsValidMove(b, U, u, pos) ==
  /\ IsValidPosition(b, pos)
  /\ (GetUnit(b, pos) = Null \/ U[GetUnit(b, pos)].team # U[u].team)

InSeq(s, x) == \E i \in 1..Len(s) : s[i] = x

RECURSIVE Flatten(_)
Flatten(ss) == IF ss = <<>> THEN <<>> ELSE Head(ss) \o Flatten(Tail(ss))

OrthogonalDirs == <<Pos(1, 0), Pos(-1, 0), Pos(0, 1), Pos(0, -1)>>
DiagonalDirs == <<Pos(1, 1), Pos(1, -1), Pos(-1, 1), Pos(-1, -1)>>
AllDirs == OrthogonalDirs \o DiagonalDirs
KnightOffsets == <<Pos(2, 1), Pos(2, -1), Pos(-2, 1), Pos(-2, -1),
                   Pos(1, 2), Pos(1, -2), Pos(-1, 2), Pos(-1, -2)>>

\* the while loop of Rook / Bishop / Queen.getPossibleMoves for one direction
RECURSIVE Ray(_, _, _, _, _, _, _)
Ray(b, U, u, cur, dir, distance, maxRange) ==
  IF distance > maxRange THEN <<>>
  ELSE LET newPos == Step(cur, dir, distance)
       IN IF ~IsValidPosition(b, newPos) THEN <<>>
          ELSE LET targetUnit == GetUnit(b, newPos)
               IN IF targetUnit = Null
                  THEN <<newPos>> \o Ray(b, U, u, cur, dir, distance + 1, maxRange)
                  ELSE IF U[targetUnit].team # U[u].team THEN <<newPos>> ELSE <<>>

\* rays that end at the edge of the board only
SlidingMovesToTheEdge(b, U, u, cur, dirs) ==
  Flatten([i \in 1..Len(dirs) |-> Ray(b, U, u, cur, dirs[i], 1, b.rows + b.cols)])

SlidingMoves(b, U, u, cur, dirs) ==
  LET maxRange == IF HasBuff(U[u], "EXTRA_RANGE") THEN 10 ELSE 8
  IN Flatten([i \in 1..Len(dirs) |-> Ray(b, U, u, cur, dirs[i], 1, maxRange)])

\* a Queen that slides along ranks and files only
QueenMovesAsRook(b, U, u, cur) == SlidingMoves(b, U, u, cur, OrthogonalDirs)

\* a Rook that slides along the diagonals
RookMovesDiagonal(b, U, u, cur) == SlidingMoves(b, U, u, cur, DiagonalDirs)

RookMoves(b, U, u, cur) == SlidingMoves(b, U, u, cur, OrthogonalDirs)
BishopMoves(b, U, u, cur) == SlidingMoves(b, U, u, cur, DiagonalDirs)
QueenMoves(b, U, u, cur) == SlidingMoves(b, U, u, cur, AllDirs)

\* one hop of offsets from `from`, keeping the admissible cells
OffsetMoves(b, U, u, from, offsets) ==
  SelectSeq([i \in 1..Len(offsets) |-> Step(from, offsets[i], 1)],
            LAMBDA p : IsValidMove(b, U, u, p))

\* a King that steps along ranks and files only
KingMovesOrthogonal(b, U, u, cur) == OffsetMoves(b, U, u, cur, OrthogonalDirs)

KingMoves(b, U, u, cur) == OffsetMoves(b, U, u, cur, AllDirs)

\* a push that does not look for the position in moves
PushAll(moves, cands) == moves \o cands

\* the DOUBLE_MOVE loops: push every admissible second hop not yet in moves
RECURSIVE PushNew(_, _)
PushNew(moves, cands) ==
  IF cands = <<>> THEN moves
  ELSE PushNew(IF InSeq(moves, Head(cands)) THEN moves
               ELSE Append(moves, Head(cands)), Tail(cands))

RECURSIVE SecondHops(_, _, _, _, _, _)
SecondHops(b, U, u, moves, secondaryMoves, i) ==
  IF i > Len(secondaryMoves) THEN moves
  ELSE SecondHops(b, U, u,
                  PushNew(moves, OffsetMoves(b, U, u, secondaryMoves[i], KnightOffsets)),
                  secondaryMoves, i + 1)

KnightMoves(b, U, u, cur) ==
  LET moves == OffsetMoves(b, U, u, cur, KnightOffsets)
  IN IF HasBuff(U[u], "DOUBLE_MOVE")
     THEN SecondHops(b, U, u, moves, moves, 1)
     ELSE moves

\* a Pawn that only ever steps one row forward
PawnMovesOneStep(b, U, u, cur) ==
  SelectSeq(<<Pos(cur.row + (IF U[u].team = PLAYER THEN -1 ELSE 1), cur.col)>>,
            LAMBDA p : IsValidPosition(b, p) /\ GetUnit(b, p) = Null)

PawnMoves(b, U, u, cur) ==
  LET direction == IF U[u].team = PLAYER THEN -1 ELSE 1
      forwardPos == Pos(cur.row + direction, cur.col)
      doubleForwardPos == Pos(cur.row + direction * 2, cur.col)
      backwardPos == Pos(cur.row - direction, cur.col)
      Empty(p) == IsValidPosition(b, p) /\ GetUnit(b, p) = Null
      Capture(p) == IF /\ IsValidPosition(b, p)
                       /\ GetUnit(b, p) # Null
                       /\ U[GetUnit(b, p)].team # U[u].team
                    THEN <<p>> ELSE <<>>
      forward == IF Empty(forwardPos)
                 THEN <<forwardPos>> \o
                      (IF ~U[u].hasMoved /\ Empty(doubleForwardPos)
                       THEN <<doubleForwardPos>> ELSE <<>>)
                 ELSE <<>>
      backward == IF HasBuff(U[u], "BACKWARD_MOVEMENT") /\ Empty(backwardPos)
                  THEN <<backwardPos>> ELSE <<>>
  IN forward \o Capture(Pos(cur.row + direction, cur.col - 1))
             \o Capture(Pos(cur.row + direction, cur.col + 1))
             \o backward

\* dynamic dispatch of unit.getPossibleMoves(currentPos, board)
GetPossibleMoves(b, U, u, cur) ==
  CASE U[u].type = PAWN -> PawnMoves(b, U, u, cur)
    [] U[u].type = ROOK -> RookMoves(b, U, u, cur)
    [] U[u].type = KNIGHT -> KnightMoves(b, U, u, cur)
    [] U[u].type = BISHOP -> BishopMoves(b, U, u, cur)
    [] U[u].type = QUEEN -> QueenMoves(b, U, u, cur)
    [] U[u].type = KING -> KingMoves(b, U, u, cur)

\* a getValidMoves that finds no move
GetValidMovesNone(b, U, pos) == <<>>

\* BoardManager.getValidMoves
GetValidMoves(b, U, pos) ==
  LET unit == GetUnit(b, pos)
  IN IF unit = Null THEN <<>>
     ELSE SelectSeq(GetPossibleMoves(b, U, unit, pos),
                    LAMBDA move :
                      /\ IsValidPosition(b, move)
                      /\ (GetUnit(b, move) = Null
                            \/ U[GetUnit(b, move)].team # U[unit].team))

----------------------------------------------------------------------------
(* BoardManager.ts: check and checkmate *)

SimulateMove(b, from, to) ==
  [b EXCEPT !.grid = SetCell(SetCell(b.grid, to, Cell(b, from)), from, Null)]

UndoMove(b, from, to, unit, capturedUnit) ==
  [b EXCEPT !.grid = SetCell(SetCell(b.grid, from, unit), to, capturedUnit)]

\* Array.find of the first KING among getUnitsByTeam(team)
FindKing(b, U, team) ==
  LET kings == SelectSeq(GetUnitsByTeam(b, U, team), LAMBDA x : U[x].type = KING)
  IN IF kings = <<>> THEN Null ELSE Head(kings)

OtherTeam(team) == IF team = PLAYER THEN ENEMY ELSE PLAYER

IsKingInCheck(b, U, team) ==
  LET king == FindKing(b, U, team)
  IN IF king = Null THEN FALSE
     ELSE LET kingPos == U[king].position
              enemyUnits == GetUnitsByTeam(b, U, OtherTeam(team))
          IN \E i \in 1..Len(enemyUnits) :
               InSeq(GetValidMoves(b, U, U[enemyUnits[i]].position), kingPos)

\* the inner loop of isCheckmate over the moves of one unit: the board after
\* the loop and whether a move was found that leaves the king out of check
RECURSIVE TryMoves(_, _, _, _, _, _)
TryMoves(b, U, team, unit, validMoves, i) ==
  IF i > Len(validMoves) THEN [escaped |-> FALSE, board |-> b]
  ELSE LET move == validMoves[i]
           originalPos == U[unit].position
           capturedUnit == Cell(b, move)
           simulated == SimulateMove(b, originalPos, move)
           stillInCheck == IsKingInCheck(simulated, U, team)
           undone == UndoMove(simulated, originalPos, move, unit, capturedUnit)
       IN IF ~stillInCheck THEN [escaped |-> TRUE, board |-> undone]
          ELSE TryMoves(undone, U, team, unit, validMoves, i + 1)

\* the outer loop of isCheckmate over friendlyUnits; `tried` is what the
\* inner loop made of unit k
RECURSIVE TryUnits(_, _, _, _, _)
NextUnit(tried, U, team, friendlyUnits, k) ==
  IF tried.escaped THEN [result |-> FALSE, board |-> tried.board]
  ELSE TryUnits(tried.board, U, team, friendlyUnits, k + 1)

TryUnits(b, U, team, friendlyUnits, k) ==
  IF k > Len(friendlyUnits) THEN [result |-> TRUE, board |-> b]
  ELSE NextUnit(TryMoves(b, U, team, friendlyUnits[k],
                         GetValidMoves(b, U, U[friendlyUnits[k]].position), 1),
                U, team, friendlyUnits, k)

\* isCheckmate: its return value and the board it leaves behind
RunIsCheckmate(b, U, team) ==
  IF ~IsKingInCheck(b, U, team) THEN [result |-> FALSE, board |-> b]
  ELSE TryUnits(b, U, team, GetUnitsByTeam(b, U, team), 1)

IsCheckmate(b, U, team) == RunIsCheckmate(b, U, team).result

----------------------------------------------------------------------------
(* BoardManager.ts: the mutating operations, as functions from the board  *)
(* and the Unit objects to the new board, the new Unit objects and the     *)
(* value returned.                                                         *)

\* placeUnit without the occupancy test (mutation of PlaceUnit)
PlaceUnitOverwriting(b, U, unit, pos) ==
  IF ~IsValidPosition(b, pos) THEN [board |-> b, units |-> U, ret |-> FALSE]
  ELSE [board |-> [b EXCEPT !.grid = SetCell(b.grid, pos, unit)],
        units |-> SetPosition(U, unit, pos),
        ret |-> TRUE]

PlaceUnit(b, U, unit, pos) ==
  IF ~IsValidPosition(b, pos) THEN [board |-> b, units |-> U, ret |-> FALSE]
  ELSE IF Cell(b, pos) # Null THEN [board |-> b, units |-> U, ret |-> FALSE]
  ELSE [board |-> [b EXCEPT !.grid = SetCell(b.grid, pos, unit)],
        units |-> SetPosition(U, unit, pos),
        ret |-> TRUE]

MoveUnit(b, U, from, to) ==
  IF ~IsValidPosition(b, from) \/ ~IsValidPosition(b, to)
  THEN [board |-> b, units |-> U, ret |-> Null]
  ELSE LET unit == Cell(b, from)
           capturedUnit == Cell(b, to)
       IN IF unit = Null THEN [board |-> b, units |-> U, ret |-> Null]
          ELSE [board |-> [b EXCEPT !.grid =
                             SetCell(SetCell(b.grid, to, unit), from, Null)],
                units |-> SetPosition(U, unit, to),
                ret |-> capturedUnit]

RemoveUnit(b, pos) ==
  IF ~IsValidPosition(b, pos) THEN [board |-> b, ret |-> Null]
  ELSE [board |-> [b EXCEPT !.grid = SetCell(b.grid, pos, Null)],
        ret |-> Cell(b, pos)]

\* the double loop of updateAllUnitPositions, cell k of this.rows x this.cols
RECURSIVE UpdateFrom(_, _, _, _, _)
UpdateFrom(b, U, rowOffset, colOffset, k) ==
  IF k >= b.rows * b.cols THEN U
  ELSE LET row == k \div b.cols
           col == k % b.cols
           unit == b.grid[row + 1][col + 1]
       IN UpdateFrom(b,
                     IF unit # Null
                     THEN SetPosition(U, unit, Pos(row + rowOffset, col + colOffset))
                     ELSE U,
                     rowOffset, colOffset, k + 1)

UpdateAllUnitPositions(b, U, rowOffset, colOffset) ==
  IF b.rows = 0 \/ b.cols = 0 THEN U ELSE UpdateFrom(b, U, rowOffset, colOffset, 0)

\* updateAllUnitPositions runs on the grown grid before this.rows is raised
AddRows(b, U, count, addToTop) ==
  LET newRows == [i \in 1..count |-> [j \in 1..b.cols |-> Null]]
      grown == IF addToTop THEN newRows \o b.grid ELSE b.grid \o newRows
  IN [board |-> [grid |-> grown, rows |-> b.rows + count, cols |-> b.cols],
      units |-> IF addToTop
                THEN UpdateAllUnitPositions([b EXCEPT !.grid = grown], U, count, 0)
                ELSE U]

\* updateAllUnitPositions runs on the grown rows before this.cols is raised
AddColumns(b, U, count, addToLeft) ==
  LET newCells == [j \in 1..count |-> Null]
      grown == [row \in 1..b.rows |->
                  IF addToLeft THEN newCells \o b.grid[row]
                  ELSE b.grid[row] \o newCells]
  IN [board |-> [grid |-> grown, rows |-> b.rows, cols |-> b.cols + count],
      units |-> IF addToLeft
                THEN UpdateAllUnitPositions([b EXCEPT !.grid = grown], U, 0, count)
                ELSE U]

----------------------------------------------------------------------------
(* RunState.ts *)

NewRunState ==
  [gold |-> 100, playerUnits |-> <<>>, currentStage |-> 1,
   gamePhase |-> "BATTLE",
   boardRows |-> DefaultRows, boardCols |-> DefaultCols]

AddGold(r, amount) == [r EXCEPT !.gold = @ + amount]

\* a spendGold that never refuses
SpendGoldOnCredit(r, amount) ==
  [ok |-> TRUE, run |-> [r EXCEPT !.gold = @ - amount]]

\* spendGold: what it returns (ok) and the RunState it leaves
SpendGold(r, amount) ==
  IF r.gold >= amount
  THEN [ok |-> TRUE, run |-> [r EXCEPT !.gold = @ - amount]]
  ELSE [ok |-> FALSE, run |-> r]

SetGamePhase(r, phase) == [r EXCEPT !.gamePhase = phase]

\* expandBoardRows(count) and expandBoardCols(count)
ExpandBoard(r, count) ==
  [r EXCEPT !.boardRows = @ + count, !.boardCols = @ + count]

AddRosterUnit(r, unit) == [r EXCEPT !.playerUnits = Append(@, unit)]

\* RunState.removeUnit: filter by object identity
RemoveRosterUnit(r, unit) ==
  [r EXCEPT !.playerUnits = SelectSeq(@, LAMBDA u : u # unit)]

AdvanceStage(r) == [r EXCEPT !.currentStage = @ + 1]

IsBossStage(r) == r.currentStage % 4 = 0

CalculateGoldReward(r) ==
  50 + (r.currentStage \div 4) * 10 + (IF IsBossStage(r) THEN 100 ELSE 0)

----------------------------------------------------------------------------
(* BattleScene.ts: the fields of the scene.  A null Position is NoPosition; *)
(* pending counts the delayedCall timers scheduled and not yet fired;      *)
(* active is false once scene.start has handed over to another scene.      *)

NoPosition == Pos(-1, -1)

NewScene ==
  [selectedUnit |-> Null, selectedPosition |-> NoPosition, validMoves |-> <<>>,
   pending |-> 0, active |-> TRUE]

----------------------------------------------------------------------------
(* The board-operation specification: a BoardManager of InitRows x         *)
(* InitCols cells and the Unit objects of Pool, under any MaxOps calls of  *)
(* its public operations with arguments in and out of bounds.  `last`      *)
(* records the operation called, its Unit, count and flag arguments, what  *)
(* it returned (ok: a boolean result, ret: a Unit or null), whether its    *)
(* position arguments were ones the operation must refuse (refused) and    *)
(* whether the call changed the board or a cached position (changed).      *)
(* For a move query it records the position asked about (pos) and the list *)
(* returned (moves); in a battle it records the player Units captured so   *)
(* far (lost) and, for a move, the destination (pos), the Unit found there *)
(* after moveUnit (unit), the Unit captured (ret) and the sizes of the     *)
(* roster (size) and of the set of Unit objects (made) before the move.    *)
(* For setupBattle it records every relocation ensureReachability made     *)
(* (log), the board ensureReachability left (reach), the attempts counted  *)
(* by ensureSolvability (count) and whether that gave up (flag).  For a    *)
(* player move and an opponent turn it records the world the handler       *)
(* started in (before), the origin of the move (from) and, for an opponent *)
(* turn, whether the roll fell under the blunder chance (flag), the legal  *)
(* moves of the piece picked (moves) and the scores selectBestMove gave    *)
(* them (log).                                                             *)

Call(op, unit, count, flag, ok, ret, refused, changed) ==
  [op |-> op, unit |-> unit, team |-> "", count |-> count, flag |-> flag,
   ok |-> ok, ret |-> ret, refused |-> refused, changed |-> changed,
   pos |-> NoPosition, moves |-> <<>>, lost |-> {}, size |-> 0, made |-> 0,
   log |-> <<>>, reach |-> <<>>, from |-> NoPosition, before |-> <<>>]

NoCall == Call("none", Null, 0, FALSE, FALSE, Null, FALSE, FALSE)

\* a call of isKingInCheck / isCheckmate: the team asked about, the answer
\* and whether the call changed the board
Query(op, team, answer, changed) ==
  [Call(op, Null, 0, FALSE, answer, Null, FALSE, changed) EXCEPT !.team = team]

\* Unit objects as the scenes construct them, at a temporary position
Pool == <<NewUnit(ROOK, PLAYER, Pos(0, 0)), NewUnit(KING, ENEMY, Pos(0, 0))>>

\* the counts given to addRows / addColumns
Counts == {1, 2}

InBounds(b) == {Pos(r, c) : r \in 0..(b.rows - 1), c \in 0..(b.cols - 1)}

\* every cell of the board and one cell beyond each of its four edges
InputPositions(b) ==
  InBounds(b) \cup {Pos(-1, 0), Pos(b.rows, 0), Pos(0, -1), Pos(0, b.cols)}

UnitIds == 1..Len(units)

Init ==
  /\ grid = CreateEmptyGrid(InitRows, InitCols)
  /\ rows = InitRows
  /\ cols = InitCols
  /\ units = Pool
  /\ last = NoCall
  /\ ops = 0
  /\ scene = NewScene
  /\ run = NewRunState

SetBoard(b) ==
  /\ grid' = b.grid
  /\ rows' = b.rows
  /\ cols' = b.cols

PlaceUnitCall(unit, pos) ==
  /\ ops < MaxOps
  /\ LET r == PlaceUnit(Board, units, unit, pos)
     IN /\ SetBoard(r.board)
        /\ units' = r.units
        /\ last' = Call("placeUnit", unit, 0, FALSE, r.ret, Null,
                        ~IsValidPosition(Board, pos) \/ Cell(Board, pos) # Null,
                        r.board # Board \/ r.units # units)
  /\ ops' = ops + 1
  /\ UNCHANGED <<scene, run>>

MoveUnitCall(from, to) ==
  /\ ops < MaxOps
  /\ LET r == MoveUnit(Board, units, from, to)
     IN /\ SetBoard(r.board)
        /\ units' = r.units
        /\ last' = Call("moveUnit", Null, 0, FALSE, FALSE, r.ret,
                        \/ ~IsValidPosition(Board, from)
                        \/ ~IsValidPosition(Board, to)
                        \/ Cell(Board, from) = Null,
                        r.board # Board \/ r.units # units)
  /\ ops' = ops + 1
  /\ UNCHANGED <<scene, run>>

RemoveUnitCall(pos) ==
  /\ ops < MaxOps
  /\ LET r == RemoveUnit(Board, pos)
     IN /\ SetBoard(r.board)
        /\ last' = Call("removeUnit", Null, 0, FALSE, FALSE, r.ret,
                        ~IsValidPosition(Board, pos), r.board # Board)
  /\ ops' = ops + 1
  /\ UNCHANGED <<scene, run>>
  /\ UNCHANGED units

GetUnitCall(pos) ==
  /\ ops < MaxOps
  /\ last' = Call("getUnit", Null, 0, FALSE, FALSE, GetUnit(Board, pos),
                  ~IsValidPosition(Board, pos), FALSE)
  /\ ops' = ops + 1
  /\ UNCHANGED <<scene, run>>
  /\ UNCHANGED <<grid, rows, cols, units>>

AddRowsCall(count, addToTop) ==
  /\ ops < MaxOps
  /\ LET r == AddRows(Board, units, count, addToTop)
     IN /\ SetBoard(r.board)
        /\ units' = r.units
  /\ last' = Call("addRows", Null, count, addToTop, FALSE, Null, FALSE, TRUE)
  /\ ops' = ops + 1
  /\ UNCHANGED <<scene, run>>

AddColumnsCall(count, addToLeft) ==
  /\ ops < MaxOps
  /\ LET r == AddColumns(Board, units, count, addToLeft)
     IN /\ SetBoard(r.board)
        /\ units' = r.units
  /\ last' = Call("addColumns", Null, count, addToLeft, FALSE, Null, FALSE, TRUE)
  /\ ops' = ops + 1
  /\ UNCHANGED <<scene, run>>

Next ==
  \/ \E unit \in UnitIds, pos \in InputPositions(Board) : PlaceUnitCall(unit, pos)
  \/ \E from \in InputPositions(Board), to \in InputPositions(Board) :
       MoveUnitCall(from, to)
  \/ \E pos \in InputPositions(Board) : RemoveUnitCall(pos)
  \/ \E pos \in InputPositions(Board) : GetUnitCall(pos)
  \/ \E count \in Counts, addToTop \in BOOLEAN : AddRowsCall(count, addToTop)
  \/ \E count \in Counts, addToLeft \in BOOLEAN : AddColumnsCall(count, addToLeft)

Spec == Init /\ [][Next]_vars

----------------------------------------------------------------------------
(* Properties of the board operations (specification Spec).  In an action  *)
(* formula the unprimed variables are the board before the call, the       *)
(* primed ones the board after it, and last' names the call.               *)

\* the cells of board b that hold Unit object u
CellsOf(b, u) == {p \in InBounds(b) : Cell(b, p) = u}

OnBoard(b, u) == CellsOf(b, u) # {}

\* C1: for every pair of in-bounds positions from, to with a piece at from,
\* after moveUnit(from, to) the cell from is empty, the cell to holds the
\* piece that was at from, the value returned is the piece that was at to
\* (or null), and the returned piece occupies no cell of the board.
MoveUnitContract ==
  [][\A from \in InBounds(Board), to \in InBounds(Board) :
       (MoveUnitCall(from, to) /\ Cell(Board, from) # Null)
       => (/\ Cell(Board', from) = Null
           /\ Cell(Board', to) = Cell(Board, from)
           /\ last'.ret = Cell(Board, to)
           /\ (last'.ret # Null => ~OnBoard(Board', last'.ret)))]_vars

\* C2: after addRows(n, addToTop = true) every piece on the board reports
\* its old row + n and its old column, and getUnit at the reported position
\* returns that piece; after addRows(n, addToTop = false) every piece
\* reports its old position.
AddRowsShiftsPositions ==
  [][last'.op = "addRows"
     => \A u \in UnitIds :
          OnBoard(Board, u) =>
            IF last'.flag
            THEN /\ units'[u].position =
                      Pos(units[u].position.row + last'.count, units[u].position.col)
                 /\ GetUnit(Board', units'[u].position) = u
            ELSE units'[u].position = units[u].position]_vars

\* C3: after addColumns(n, addToLeft = true) every piece on the board reports
\* its old column + n and its old row, is found by getUnit at the reported
\* position, and the set of pieces on the board is unchanged; after
\* addColumns(n, addToLeft = false) every piece reports its old position.
AddColumnsShiftsPositions ==
  [][last'.op = "addColumns"
     => /\ \A u \in UnitIds : OnBoard(Board', u) <=> OnBoard(Board, u)
        /\ \A u \in UnitIds :
             OnBoard(Board, u) =>
               IF last'.flag
               THEN /\ units'[u].position =
                         Pos(units[u].position.row, units[u].position.col + last'.count)
                    /\ GetUnit(Board', units'[u].position) = u
               ELSE units'[u].position = units[u].position]_vars

\* only placeUnit, moveUnit, removeUnit and getUnit have been called so far
\* (the board only grows, so its size tells)
NeverExpanded == rows = InitRows /\ cols = InitCols

\* C4: after any sequence of placeUnit, moveUnit and removeUnit calls every
\* occupied cell (r, c) holds a piece whose cached position is (r, c), and
\* no piece occupies more than one cell.
CachedPositionInvariant ==
  NeverExpanded =>
    /\ \A p \in InBounds(Board) :
         Cell(Board, p) # Null => units[Cell(Board, p)].position = p
    /\ \A u \in UnitIds : Cardinality(CellsOf(Board, u)) <= 1

\* C5: rejected board operations have no effect: placeUnit onto an
\* out-of-bounds or occupied cell returns false, moveUnit with an
\* out-of-bounds from or to or an empty from cell returns null, removeUnit
\* and getUnit out of bounds return null, and each leaves the grid and the
\* cached positions as they were.
RejectedCallsHaveNoEffect ==
  (last.op \in {"placeUnit", "moveUnit", "removeUnit", "getUnit"} /\ last.refused)
    => (~last.changed /\ last.ok = FALSE /\ last.ret = Null)

\* C5 witness: with a piece on the board, a placeUnit of the other piece
\* has been refused and the board holds the one piece only
RejectedPlace ==
  /\ last.op = "placeUnit"
  /\ last.refused
  /\ last.ok = FALSE
  /\ ~OnBoard(Board, last.unit)
  /\ \E u \in UnitIds : OnBoard(Board, u)

----------------------------------------------------------------------------
(* The check specification: a default board holding one of the piece sets *)
(* of Setups, every piece placed once on a cell of its own (as placeUnit   *)
(* leaves them) where a battle spawns it, under calls of isKingInCheck and *)
(* isCheckmate for either team and at most MaxMoves legal moves made with  *)
(* moveUnit.                                                               *)

EmptyBoard(r, c) == [grid |-> CreateEmptyGrid(r, c), rows |-> r, cols |-> c]

AnyCell == InBounds(EmptyBoard(DefaultRows, DefaultCols))

\* spawnPlayerUnits: row = rows - 1
PlayerCells == {p \in AnyCell : p.row = DefaultRows - 1}

\* tryPlaceEnemyUnit: row between 0 and 1
EnemyCells == {p \in AnyCell : p.row <= 1}

\* spawnEnemyUnits: kingPos = (0, floor(cols / 2))
KingSpawn == {Pos(0, DefaultCols \div 2)}

Piece(type, team, cells) == [type |-> type, team |-> team, cells |-> cells]

Setups ==
  { <<Piece(KING, ENEMY, KingSpawn), Piece(ROOK, PLAYER, PlayerCells)>>,
    <<Piece(KING, ENEMY, KingSpawn), Piece(KNIGHT, PLAYER, PlayerCells)>>,
    <<Piece(ROOK, ENEMY, EnemyCells), Piece(BISHOP, PLAYER, PlayerCells)>>,
    <<Piece(KING, ENEMY, KingSpawn), Piece(ROOK, PLAYER, PlayerCells),
      Piece(ROOK, PLAYER, PlayerCells)>>,
    <<Piece(KING, ENEMY, KingSpawn), Piece(PAWN, ENEMY, EnemyCells),
      Piece(QUEEN, PLAYER, PlayerCells)>> }

\* the board after placeUnit(unit i, where[i]) for every unit of U
RECURSIVE PlaceAll(_, _, _, _)
PlaceAll(b, U, where, i) ==
  IF i > Len(U) THEN [board |-> b, units |-> U]
  ELSE LET r == PlaceUnit(b, U, i, where[i])
       IN PlaceAll(r.board, r.units, where, i + 1)

InitCheck ==
  \E setup \in Setups :
    \E where \in [1..Len(setup) -> AnyCell] :
      /\ \A i \in 1..Len(setup) : where[i] \in setup[i].cells
      /\ \A i, j \in 1..Len(setup) : where[i] = where[j] => i = j
      /\ LET placed == PlaceAll(EmptyBoard(DefaultRows, DefaultCols),
                                [i \in 1..Len(setup) |->
                                   NewUnit(setup[i].type, setup[i].team, where[i])],
                                where, 1)
         IN /\ grid = placed.board.grid
            /\ rows = placed.board.rows
            /\ cols = placed.board.cols
            /\ units = placed.units
      /\ last = NoCall
      /\ ops = 0
      /\ scene = NewScene
      /\ run = NewRunState

IsKingInCheckCall(team) ==
  /\ last' = Query("isKingInCheck", team, IsKingInCheck(Board, units, team), FALSE)
  /\ UNCHANGED <<grid, rows, cols, units, ops, scene, run>>

IsCheckmateCall(team) ==
  /\ LET r == RunIsCheckmate(Board, units, team)
     IN /\ SetBoard(r.board)
        /\ last' = Query("isCheckmate", team, r.result, r.board # Board)
  /\ UNCHANGED <<units, ops, scene, run>>

\* moveUnit(from, to) for the i-th legal move of the piece at from
LegalMoveCall(from, i) ==
  /\ ops < MaxMoves
  /\ LET to == GetValidMoves(Board, units, from)[i]
         r == MoveUnit(Board, units, from, to)
     IN /\ SetBoard(r.board)
        /\ units' = r.units
        /\ last' = Call("moveUnit", Cell(Board, from), 0, FALSE, FALSE, r.ret,
                        FALSE, TRUE)
  /\ ops' = ops + 1
  /\ UNCHANGED <<scene, run>>

NextCheck ==
  \/ \E team \in Teams : IsKingInCheckCall(team)
  \/ \E team \in Teams : IsCheckmateCall(team)
  \/ /\ ops < MaxMoves
     /\ \E from \in InBounds(Board) :
          \E i \in 1..Len(GetValidMoves(Board, units, from)) : LegalMoveCall(from, i)

SpecCheck == InitCheck /\ [][NextCheck]_vars

----------------------------------------------------------------------------
(* BattleScene.ts: turn handling.  A world is the record of everything a   *)
(* handler of the scene can read or write: the board, the Unit objects,    *)
(* the scene fields and the RunState.                                      *)

World == [board |-> Board, units |-> units, scene |-> scene, run |-> run]

DeselectUnit(w) ==
  [w EXCEPT !.scene.selectedUnit = Null,
            !.scene.selectedPosition = NoPosition,
            !.scene.validMoves = <<>>]

SelectUnit(w, unit, position) ==
  [w EXCEPT !.scene.selectedUnit = unit,
            !.scene.selectedPosition = position,
            !.scene.validMoves = GetValidMoves(w.board, w.units, position)]

\* a handleVictory that leaves the battle scene running
HandleVictoryStaying(w) ==
  [w EXCEPT !.run = AdvanceStage(AddGold(w.run, CalculateGoldReward(w.run)))]

\* handleVictory: award gold, advance the stage, start PathSelectionScene
HandleVictory(w) ==
  [w EXCEPT !.run = AdvanceStage(AddGold(w.run, CalculateGoldReward(w.run))),
            !.scene.active = FALSE]

\* handleDefeat: start GameOverScene
HandleDefeat(w) == [w EXCEPT !.scene.active = FALSE]

\* checkBattleEnd on a boss stage, `mate` being what isCheckmate(ENEMY)
\* returned and the board it left
BossBattleEnd(w, mate) ==
  IF mate.result
  THEN [over |-> TRUE, world |-> HandleVictory([w EXCEPT !.board = mate.board])]
  ELSE [over |-> FALSE, world |-> [w EXCEPT !.board = mate.board]]

\* a checkBattleEnd that does not look for the defeat
CheckBattleEndWithoutDefeat(w) ==
  IF IsBossStage(w.run)
  THEN BossBattleEnd(w, RunIsCheckmate(w.board, w.units, ENEMY))
  ELSE IF GetUnitsByTeam(w.board, w.units, ENEMY) = <<>>
  THEN [over |-> TRUE, world |-> HandleVictory(w)]
  ELSE [over |-> FALSE, world |-> w]

\* checkBattleEnd: whether the battle is over, and the world it leaves
CheckBattleEnd(w) ==
  IF GetUnitsByTeam(w.board, w.units, PLAYER) = <<>>
  THEN [over |-> TRUE, world |-> HandleDefeat(w)]
  ELSE IF IsBossStage(w.run)
  THEN BossBattleEnd(w, RunIsCheckmate(w.board, w.units, ENEMY))
  ELSE IF GetUnitsByTeam(w.board, w.units, ENEMY) = <<>>
  THEN [over |-> TRUE, world |-> HandleVictory(w)]
  ELSE [over |-> FALSE, world |-> w]

PromotionTypes == {ROOK, KNIGHT, BISHOP}

\* a promotion that forgets the pawn's buffs
CheckForPromotionWithoutBuffs(w, unit, position, promotedType) ==
  IF w.units[unit].type # PAWN \/ w.units[unit].team # PLAYER \/ position.row # 0
  THEN w
  ELSE LET promotedUnit == Len(w.units) + 1
           created == Append(w.units, NewUnit(promotedType, PLAYER, position))
           removed == RemoveUnit(w.board, position)
           placed == PlaceUnit(removed.board, created, promotedUnit, position)
       IN [w EXCEPT !.run = AddRosterUnit(RemoveRosterUnit(w.run, unit), promotedUnit),
                    !.board = placed.board,
                    !.units = placed.units]

\* checkForPromotion, promotedType being the kind RND.pick returns
CheckForPromotion(w, unit, position, promotedType) ==
  IF w.units[unit].type # PAWN \/ w.units[unit].team # PLAYER \/ position.row # 0
  THEN w
  ELSE LET promotedUnit == Len(w.units) + 1
           created == Append(w.units,
                             [NewUnit(promotedType, PLAYER, position)
                                EXCEPT !.buffs = w.units[unit].buffs])
           removed == RemoveUnit(w.board, position)
           placed == PlaceUnit(removed.board, created, promotedUnit, position)
       IN [w EXCEPT !.run = AddRosterUnit(RemoveRosterUnit(w.run, unit), promotedUnit),
                    !.board = placed.board,
                    !.units = placed.units]

\* a capture that leaves the roster alone
ApplyCaptureKeepingRoster(w, moved) ==
  [w EXCEPT !.board = moved.board, !.units = moved.units]

\* executeMove, the capture: the move on the board and permadeath of a
\* captured player unit (`moved` is what moveUnit returned and left)
ApplyCapture(w, moved) ==
  [w EXCEPT !.board = moved.board,
            !.units = moved.units,
            !.run = IF moved.ret # Null /\ w.units[moved.ret].team = PLAYER
                    THEN RemoveRosterUnit(w.run, moved.ret)
                    ELSE w.run]

\* executeMove, the unit now at `to`: markAsMoved, promotion of a player
\* pawn, and deselectUnit after a player move
UpdateMovedUnit(w, movedUnit, to, isEnemyMove, promotedType) ==
  IF movedUnit = Null THEN (IF isEnemyMove THEN w ELSE DeselectUnit(w))
  ELSE IF isEnemyMove THEN [w EXCEPT !.units[movedUnit].hasMoved = TRUE]
  ELSE DeselectUnit(CheckForPromotion([w EXCEPT !.units[movedUnit].hasMoved = TRUE],
                                      movedUnit, to, promotedType))

AfterMove(w, to, isEnemyMove, promotedType) ==
  UpdateMovedUnit(w, GetUnit(w.board, to), to, isEnemyMove, promotedType)

\* executeMove, the end: a player move that leaves the battle running
\* schedules makeEnemyMove with delayedCall(500)
ScheduleEnemyMove(end, isEnemyMove) ==
  IF ~end.over /\ ~isEnemyMove
  THEN [end.world EXCEPT !.scene.pending = @ + 1]
  ELSE end.world

ExecuteMove(w, from, to, isEnemyMove, promotedType) ==
  ScheduleEnemyMove(
    CheckBattleEnd(
      AfterMove(ApplyCapture(w, MoveUnit(w.board, w.units, from, to)),
                to, isEnemyMove, promotedType)),
    isEnemyMove)

Abs(x) == IF x < 0 THEN -x ELSE x

GetManhattanDistance(pos1, pos2) ==
  Abs(pos1.row - pos2.row) + Abs(pos1.col - pos2.col)

\* findClosestPlayerPosition: the first minimum in scan order
RECURSIVE ClosestFrom(_, _, _, _, _)
ClosestFrom(U, from, playerUnits, i, best) ==
  IF i > Len(playerUnits) THEN best
  ELSE LET playerPos == U[playerUnits[i]].position
       IN ClosestFrom(U, from, playerUnits, i + 1,
                      IF best = NoPosition
                           \/ GetManhattanDistance(from, playerPos)
                                < GetManhattanDistance(from, best)
                      THEN playerPos ELSE best)

FindClosestPlayerPosition(U, from, playerUnits) ==
  ClosestFrom(U, from, playerUnits, 1, NoPosition)

IsSquareUnderAttack(w, pos, defendingTeam) ==
  LET attackers == GetUnitsByTeam(w.board, w.units, OtherTeam(defendingTeam))
  IN \E i \in 1..Len(attackers) :
       InSeq(GetValidMoves(w.board, w.units, w.units[attackers[i]].position), pos)

\* a score whose safety term does not look at the stage
MoveScoreAlwaysCautious(w, from, move, currentStage, closestPlayerPos) ==
  LET targetUnit == GetUnit(w.board, move)
  IN (IF targetUnit # Null /\ w.units[targetUnit].team = PLAYER THEN 100 ELSE 0)
     + (IF IsSquareUnderAttack(w, move, ENEMY) THEN -50 ELSE 0)
     + (IF closestPlayerPos # NoPosition
             /\ GetManhattanDistance(move, closestPlayerPos)
                  < GetManhattanDistance(from, closestPlayerPos)
        THEN 10 ELSE 0)

\* the score selectBestMove gives one move
MoveScore(w, from, move, currentStage, closestPlayerPos) ==
  LET targetUnit == GetUnit(w.board, move)
  IN (IF targetUnit # Null /\ w.units[targetUnit].team = PLAYER THEN 100 ELSE 0)
     + (IF currentStage > 4 /\ IsSquareUnderAttack(w, move, ENEMY) THEN -50 ELSE 0)
     + (IF closestPlayerPos # NoPosition
             /\ GetManhattanDistance(move, closestPlayerPos)
                  < GetManhattanDistance(from, closestPlayerPos)
        THEN 10 ELSE 0)

\* the last index of the highest score
LastBest(score) ==
  CHOOSE i \in DOMAIN score :
    /\ \A j \in DOMAIN score : score[j] <= score[i]
    /\ \A j \in (i + 1)..Len(score) : score[j] < score[i]

\* the first index of the highest score (score > bestScore replaces)
FirstBest(score) ==
  CHOOSE i \in DOMAIN score :
    /\ \A j \in DOMAIN score : score[j] <= score[i]
    /\ \A j \in 1..(i - 1) : score[j] < score[i]

ScoreMoves(w, from, moves, currentStage, closestPlayerPos) ==
  [i \in 1..Len(moves) |-> MoveScore(w, from, moves[i], currentStage, closestPlayerPos)]

\* the scores selectBestMove gives the moves, in their order
Scores(w, from, moves, currentStage) ==
  ScoreMoves(w, from, moves, currentStage,
             FindClosestPlayerPosition(w.units, from,
                                       GetUnitsByTeam(w.board, w.units, PLAYER)))

SelectBestMove(w, from, moves, currentStage) ==
  moves[FirstBest(Scores(w, from, moves, currentStage))]

\* a blunder chance without the ramp of the first stages
BlunderChanceFlat(currentStage) == IF currentStage >= 10 THEN 0 ELSE 20

\* blunderChance of makeEnemyMove, in hundredths
BlunderChance(currentStage) ==
  IF currentStage >= 10 THEN 0
  ELSE IF currentStage >= 5 THEN 20
  ELSE 40 - (currentStage - 1) * 5

\* whether roll < blunderChance may come out true, and false: the roll is
\* any number of [0, 1)
BlunderOutcomes(currentStage) ==
  IF BlunderChance(currentStage) > 0 THEN {TRUE, FALSE} ELSE {FALSE}

\* the targets makeEnemyMove may choose for the enemy at `from`: any move
\* on a blunder (RND.pick), the best move otherwise
EnemyTargets(w, from, moves, blunder) ==
  IF blunder
  THEN {moves[j] : j \in 1..Len(moves)}
  ELSE {SelectBestMove(w, from, moves, w.run.currentStage)}

\* an enemy without a move is picked too, and stays where it is
EnemyMovesFromStaying(w, from, moves) ==
  IF moves = <<>>
  THEN {[from |-> from, to |-> from, blunder |-> FALSE, moves |-> moves]}
  ELSE UNION {{[from |-> from, to |-> to, blunder |-> blunder, moves |-> moves] :
                 to \in EnemyTargets(w, from, moves, blunder)} :
              blunder \in BlunderOutcomes(w.run.currentStage)}

EnemyMovesFrom(w, from, moves) ==
  IF moves = <<>> THEN {}
  ELSE UNION {{[from |-> from, to |-> to, blunder |-> blunder, moves |-> moves] :
                 to \in EnemyTargets(w, from, moves, blunder)} :
              blunder \in BlunderOutcomes(w.run.currentStage)}

EnemyMovesOf(w, enemyUnits) ==
  UNION {EnemyMovesFrom(w, w.units[enemyUnits[i]].position,
                        GetValidMoves(w.board, w.units, w.units[enemyUnits[i]].position)) :
           i \in 1..Len(enemyUnits)}

\* the moves makeEnemyMove may execute: RND.pick of an enemy with moves,
\* then one of its targets
EnemyMoves(w) == EnemyMovesOf(w, GetUnitsByTeam(w.board, w.units, ENEMY))

----------------------------------------------------------------------------
(* The battle specification: a battle of Battles as setupBattle leaves it  *)
(* (the roster on the bottom row in roster order, the enemies on cells of  *)
(* the top two rows, a boss King on its spawn cell), under clicks on any   *)
(* cell or off the board and the firing of scheduled delayedCall timers.   *)
(* ops counts the player moves applied, at most MaxPlayerMoves; last.count *)
(* counts the opponent turns (makeEnemyMove calls) taken so far.           *)

\* a first battle of two pawns, the first one carrying a buff, against a
\* pawn, and the boss battle of stage 8 of a rook against the King
Battles ==
  { [stage |-> 1, roster |-> <<PAWN, PAWN>>, buffs |-> <<"EXTRA_RANGE">>,
     enemies |-> <<PAWN>>],
    [stage |-> 8, roster |-> <<ROOK>>, buffs |-> <<>>, enemies |-> <<KING>>] }

\* ensureReachability and ensureSolvability find nothing to reposition
SetupSettled(b, U) ==
  LET playerUnits == GetUnitsByTeam(b, U, PLAYER)
      enemyUnits == GetUnitsByTeam(b, U, ENEMY)
  IN /\ \A i \in 1..Len(playerUnits) :
          U[playerUnits[i]].type = PAWN =>
            \E j \in 1..Len(enemyUnits) :
              Abs(U[enemyUnits[j]].position.col - U[playerUnits[i]].position.col) <= 1
     /\ \E i \in 1..Len(playerUnits) :
          GetValidMoves(b, U, U[playerUnits[i]].position) # <<>>

InitBattle ==
  \E battle \in Battles :
    \E where \in [1..Len(battle.enemies) -> EnemyCells] :
      LET n == Len(battle.roster)
          created == [i \in 1..(n + Len(battle.enemies)) |->
                        IF i <= n
                        THEN [NewUnit(battle.roster[i], PLAYER,
                                      Pos(DefaultRows - 1, (i - 1) % DefaultCols))
                                EXCEPT !.buffs = IF i = 1 THEN battle.buffs ELSE <<>>]
                        ELSE NewUnit(battle.enemies[i - n], ENEMY, where[i - n])]
          cells == [i \in 1..Len(created) |-> created[i].position]
          placed == PlaceAll(EmptyBoard(DefaultRows, DefaultCols), created, cells, 1)
      IN /\ \A i \in 1..Len(battle.enemies) :
              battle.enemies[i] = KING => where[i] \in KingSpawn
         /\ \A i, j \in 1..Len(battle.enemies) : where[i] = where[j] => i = j
         /\ SetupSettled(placed.board, placed.units)
         /\ grid = placed.board.grid
         /\ rows = placed.board.rows
         /\ cols = placed.board.cols
         /\ units = placed.units
         /\ last = NoCall
         /\ ops = 0
         /\ scene = NewScene
         /\ run = [NewRunState EXCEPT !.playerUnits = [i \in 1..n |-> i],
                                      !.currentStage = battle.stage]

SetWorld(w) ==
  /\ SetBoard(w.board)
  /\ units' = w.units
  /\ scene' = w.scene
  /\ run' = w.run

Turn(op, turns) ==
  [NoCall EXCEPT !.op = op, !.count = turns, !.lost = last.lost]

\* what a handler found when it started in the world w: the board, the
\* Unit objects and the RunState
Before(w) == [board |-> w.board, units |-> w.units, run |-> w.run]

\* a turn of the opponent that started in the world `before`
EnemyTurn(before) ==
  [Turn("enemyTurn", last.count + 1) EXCEPT !.before = Before(before)]

\* what moveUnit(from, to) returns in the world w
Captured(w, from, to) == MoveUnit(w.board, w.units, from, to).ret

\* the Unit at `to` once moveUnit(from, to) has run in the world w
MovedUnit(w, from, to) == GetUnit(MoveUnit(w.board, w.units, from, to).board, to)

LostWith(w, capturedUnit) ==
  IF capturedUnit # Null /\ w.units[capturedUnit].team = PLAYER
  THEN last.lost \cup {capturedUnit} ELSE last.lost

MoveTurn(op, turns, w, from, to) ==
  [Turn(op, turns) EXCEPT !.pos = to,
                          !.from = from,
                          !.before = Before(w),
                          !.unit = MovedUnit(w, from, to),
                          !.ret = Captured(w, from, to),
                          !.lost = LostWith(w, Captured(w, from, to)),
                          !.size = Len(w.run.playerUnits),
                          !.made = Len(w.units)]

\* whether a click on boardPos executes the move of the selected unit
IsMoveClick(boardPos) ==
  /\ boardPos # NoPosition
  /\ scene.selectedUnit # Null
  /\ scene.selectedPosition # NoPosition
  /\ InSeq(scene.validMoves, boardPos)

\* RND.pick(promotionTypes) is drawn only when a player move ends on row 0
PromotionChoices(boardPos) ==
  IF IsMoveClick(boardPos) /\ boardPos.row = 0 THEN PromotionTypes ELSE {ROOK}

\* handleBoardClick for a pointer over boardPos (NoPosition: off the board)
HandleBoardClick(boardPos, promotedType) ==
  /\ scene.active
  /\ IF IsMoveClick(boardPos)
     THEN /\ ops < MaxPlayerMoves
          /\ SetWorld(ExecuteMove(World, scene.selectedPosition, boardPos,
                                  FALSE, promotedType))
          /\ ops' = ops + 1
          /\ last' = MoveTurn("playerMove", last.count, World,
                               scene.selectedPosition, boardPos)
     ELSE /\ IF boardPos = NoPosition THEN SetWorld(DeselectUnit(World))
             ELSE LET clickedUnit == GetUnit(Board, boardPos)
                  IN IF clickedUnit # Null /\ units[clickedUnit].team = PLAYER
                     THEN SetWorld(SelectUnit(DeselectUnit(World), clickedUnit, boardPos))
                     ELSE SetWorld(DeselectUnit(World))
          /\ ops' = ops
          /\ last' = Turn("click", last.count)

\* makeEnemyMove past its checkBattleEnd: no move when no enemy can move
PickEnemyMove(before, w, enemyMoves) ==
  IF enemyMoves = {}
  THEN SetWorld(w) /\ last' = EnemyTurn(before)
  ELSE \E move \in enemyMoves :
         /\ SetWorld(ExecuteMove(w, move.from, move.to, TRUE, ROOK))
         /\ last' = [MoveTurn("enemyTurn", last.count + 1, w, move.from, move.to)
                       EXCEPT !.flag = move.blunder,
                              !.moves = move.moves,
                              !.log = IF move.blunder THEN <<>>
                                      ELSE Scores(w, move.from, move.moves,
                                                  w.run.currentStage)]

\* makeEnemyMove started in the world `before`, `end` being what its
\* checkBattleEnd returned and left
MakeEnemyMove(before, end) ==
  IF end.over
  THEN SetWorld(end.world) /\ last' = EnemyTurn(before)
  ELSE PickEnemyMove(before, end.world, EnemyMoves(end.world))

\* the world when a delayedCall timer has fired
TimerFired(w) == [w EXCEPT !.scene.pending = @ - 1]

\* a delayedCall timer fires and runs makeEnemyMove
DelayedCallFires ==
  /\ scene.active
  /\ scene.pending > 0
  /\ MakeEnemyMove(TimerFired(World), CheckBattleEnd(TimerFired(World)))
  /\ ops' = ops

NextBattle ==
  \/ \E boardPos \in InBounds(Board) \cup {NoPosition} :
       \E promotedType \in PromotionChoices(boardPos) :
         HandleBoardClick(boardPos, promotedType)
  \/ DelayedCallFires

SpecBattle == InitBattle /\ [][NextBattle]_vars

----------------------------------------------------------------------------
(* Check and checkmate read off the grid alone: the cells the pieces       *)
(* really occupy, never their cached positions.                            *)

\* some piece of the other team has `cell` among its legal moves
AttackedCell(b, U, team, cell) ==
  \E p \in InBounds(b) :
    /\ Cell(b, p) # Null
    /\ U[Cell(b, p)].team = OtherTeam(team)
    /\ InSeq(GetValidMoves(b, U, p), cell)

\* the cells of b that hold a King of team
KingCells(b, U, team) ==
  {p \in InBounds(b) :
     Cell(b, p) # Null /\ U[Cell(b, p)].team = team /\ U[Cell(b, p)].type = KING}

\* team has a king on the board and the cell it occupies is attacked
KingAttacked(b, U, team) ==
  \E k \in KingCells(b, U, team) : AttackedCell(b, U, team, k)

\* in check, and every legal move of every piece of team leads to a
\* position where the cell the king then occupies is attacked
NoEscape(b, U, team) ==
  /\ KingAttacked(b, U, team)
  /\ \A p \in InBounds(b) :
       (Cell(b, p) # Null /\ U[Cell(b, p)].team = team) =>
         \A i \in 1..Len(GetValidMoves(b, U, p)) :
           LET r == MoveUnit(b, U, p, GetValidMoves(b, U, p)[i])
           IN KingAttacked(r.board, r.units, team)

\* C6: isCheckmate(team) returns true if and only if team's king is in
\* check and every legal move of every piece of team leads to a position
\* where the cell the king then occupies is attacked by an opposing piece.
IsCheckmateIffNoEscape ==
  \A team \in Teams : IsCheckmate(Board, units, team) = NoEscape(Board, units, team)

\* the board holds exactly an enemy King on kingAt and a player Rook on rookAt
OnlyKingAndRook(kingAt, rookAt) ==
  /\ rows = DefaultRows /\ cols = DefaultCols
  /\ {p \in InBounds(Board) : Cell(Board, p) # Null} = {kingAt, rookAt}
  /\ units[Cell(Board, kingAt)].type = KING
  /\ units[Cell(Board, kingAt)].team = ENEMY
  /\ units[Cell(Board, rookAt)].type = ROOK
  /\ units[Cell(Board, rookAt)].team = PLAYER

ScenarioCStart == OnlyKingAndRook(Pos(0, 2), Pos(4, 2))

\* the Rook has been moved from (4,2) to (1,2)
ScenarioCMoved ==
  /\ OnlyKingAndRook(Pos(0, 2), Pos(1, 2))
  /\ ops = 1

\* C7 as stated: in Scenario C, after the Rook is moved to (1,2),
\* isCheckmate(ENEMY) returns true.
ScenarioCIsCheckmate ==
  ScenarioCMoved => IsCheckmate(Board, units, ENEMY)

\* C7 amended: in Scenario C isKingInCheck(ENEMY) is true before and after
\* the Rook is moved to (1,2), and after the move isCheckmate(ENEMY) returns
\* false, because the King can capture the undefended Rook on (1,2).
ScenarioCIsCheckNotMate ==
  /\ ScenarioCStart => IsKingInCheck(Board, units, ENEMY)
  /\ ScenarioCMoved =>
       /\ IsKingInCheck(Board, units, ENEMY)
       /\ ~IsCheckmate(Board, units, ENEMY)
       /\ InSeq(GetValidMoves(Board, units, Pos(0, 2)), Pos(1, 2))
       /\ (last.op = "isCheckmate" /\ last.team = ENEMY) => ~last.ok
       /\ (last.op = "isKingInCheck" /\ last.team = ENEMY) => last.ok

\* isCheckmate(ENEMY) was called after the Rook moved to (1,2)
ScenarioCAnswered ==
  ScenarioCMoved /\ last.op = "isCheckmate" /\ last.team = ENEMY /\ ~last.ok

\* C8: isKingInCheck(team) is true exactly when team has a king on the
\* board whose cell is a legal move of some opposing piece, and with no
\* king of team on the board isKingInCheck(team) and isCheckmate(team) are
\* both false.
IsKingInCheckIffKingAttacked ==
  \A team \in Teams :
    /\ IsKingInCheck(Board, units, team) = KingAttacked(Board, units, team)
    /\ KingCells(Board, units, team) = {} =>
         (~IsKingInCheck(Board, units, team) /\ ~IsCheckmate(Board, units, team))

\* C9: isCheckmate(team) and isKingInCheck(team) leave every cell of the
\* board holding the piece it held before the call.
CheckQueriesLeaveBoard ==
  \A team \in Teams : RunIsCheckmate(Board, units, team).board = Board

\* a player move has just been applied
PlayerMoved == last.op = "playerMove"

\* C10: the opponent acts strictly in alternation with the player: when a
\* player move is applied, every earlier player move has been answered by
\* exactly one opponent turn, so none is still pending.
StrictAlternation == PlayerMoved => last.count = ops - 1

----------------------------------------------------------------------------
(* The moves specification: a default board holding one Subject piece on   *)
(* any cell and at most one other piece of either team on any other cell,  *)
(* or the board of a run after MaxExpansions purchases holding one sliding *)
(* piece on a corner or an inner cell and at most one other piece, under   *)
(* calls of getValidMoves for the occupied cells, two corner cells and one *)
(* cell beyond each edge.                                                  *)

Buffed(unit, buffType) == [unit EXCEPT !.buffs = Append(@, buffType)]

Moved(unit) == [unit EXCEPT !.hasMoved = TRUE]

\* the pieces asked about: every kind, with and without the buff its move
\* generator reads, and a pawn that has moved
Subjects(team) ==
  { NewUnit(PAWN, team, Pos(0, 0)),
    Moved(NewUnit(PAWN, team, Pos(0, 0))),
    Buffed(NewUnit(PAWN, team, Pos(0, 0)), "BACKWARD_MOVEMENT"),
    NewUnit(ROOK, team, Pos(0, 0)),
    NewUnit(KNIGHT, team, Pos(0, 0)),
    Buffed(NewUnit(KNIGHT, team, Pos(0, 0)), "DOUBLE_MOVE"),
    NewUnit(BISHOP, team, Pos(0, 0)),
    NewUnit(QUEEN, team, Pos(0, 0)),
    NewUnit(KING, team, Pos(0, 0)) }

\* the other piece of the board
Blockers == {NewUnit(PAWN, team, Pos(0, 0)) : team \in Teams}

\* the sliding pieces, with and without the buff their ray loop reads
Sliders(team) ==
  LET plain == {NewUnit(type, team, Pos(0, 0)) : type \in {ROOK, BISHOP, QUEEN}}
  IN plain \cup {Buffed(unit, "EXTRA_RANGE") : unit \in plain}

\* RunState.expandBoardRows / expandBoardCols, once per purchase
ExpandedRows == DefaultRows + MaxExpansions
ExpandedCols == DefaultCols + MaxExpansions

ExpandedCells == InBounds(EmptyBoard(ExpandedRows, ExpandedCols))

\* where the sliding piece stands on the expanded board
SliderCells ==
  {Pos(0, 0), Pos(ExpandedRows - 1, 0), Pos(DefaultRows - 1, DefaultCols - 1)}

PlaceSubjectOn(b, subject, at) == PlaceUnit(b, <<subject>>, 1, at)

PlaceSubject(subject, at) ==
  PlaceSubjectOn(EmptyBoard(DefaultRows, DefaultCols), subject, at)

PlaceSlider(subject, at) ==
  PlaceSubjectOn(EmptyBoard(ExpandedRows, ExpandedCols), subject, at)

PlaceBlocker(placed, blocker, at) ==
  PlaceUnit(placed.board, Append(placed.units, blocker), 2, at)

InitPlaced(placed) ==
  /\ grid = placed.board.grid
  /\ rows = placed.board.rows
  /\ cols = placed.board.cols
  /\ units = placed.units

InitMoves ==
  /\ \/ \E team \in Teams : \E subject \in Subjects(team) : \E at \in AnyCell :
       \/ InitPlaced(PlaceSubject(subject, at))
       \/ \E blocker \in Blockers : \E other \in AnyCell \ {at} :
            InitPlaced(PlaceBlocker(PlaceSubject(subject, at), blocker, other))
     \/ \E team \in Teams : \E subject \in Sliders(team) : \E at \in SliderCells :
       \/ InitPlaced(PlaceSlider(subject, at))
       \/ \E blocker \in Blockers : \E other \in ExpandedCells \ {at} :
            InitPlaced(PlaceBlocker(PlaceSlider(subject, at), blocker, other))
  /\ last = NoCall
  /\ ops = 0
  /\ scene = NewScene
  /\ run = NewRunState

OccupiedCells(b) == {p \in InBounds(b) : Cell(b, p) # Null}

QueryPositions(b) ==
  OccupiedCells(b) \cup (InputPositions(b) \ InBounds(b))
    \cup {Pos(0, 0), Pos(b.rows - 1, b.cols - 1)}

MovesQuery(pos, moves) ==
  [NoCall EXCEPT !.op = "getValidMoves", !.pos = pos, !.moves = moves]

GetValidMovesCall(pos) ==
  /\ last.op = "none"
  /\ last' = MovesQuery(pos, GetValidMoves(Board, units, pos))
  /\ ops' = ops + 1
  /\ UNCHANGED <<grid, rows, cols, units, scene, run>>

NextMoves == \E pos \in QueryPositions(Board) : GetValidMovesCall(pos)

SpecMoves == InitMoves /\ [][NextMoves]_vars

----------------------------------------------------------------------------
(* Move generation against its description.                                *)

MovesAsked == last.op = "getValidMoves"

\* the Unit on the cell asked about, null for an empty cell or none
AskedUnit == GetUnit(Board, last.pos)

MoveSet == {last.moves[i] : i \in 1..Len(last.moves)}

NoMoveTwice == Cardinality(MoveSet) = Len(last.moves)

Admissible(b, U, team, p) ==
  /\ IsValidPosition(b, p)
  /\ (Cell(b, p) = Null \/ U[Cell(b, p)].team # team)

Neighbours(pos) ==
  {Pos(pos.row + dr, pos.col + dc) : dr \in -1..1, dc \in -1..1} \ {pos}

AskedIs(type) == MovesAsked /\ AskedUnit # Null /\ units[AskedUnit].type = type

\* C18: every position getValidMoves returns is in bounds and is empty or
\* holds a piece of the team opposite to the piece asked about; for an
\* empty or out-of-bounds cell the list is empty; the legal moves of a King
\* are exactly the admissible cells among its 8 neighbours.
ValidMovesAreAdmissible ==
  MovesAsked =>
    /\ AskedUnit = Null => last.moves = <<>>
    /\ AskedUnit # Null =>
         \A m \in MoveSet : Admissible(Board, units, units[AskedUnit].team, m)
    /\ AskedIs(KING) =>
         /\ NoMoveTwice
         /\ MoveSet = {n \in Neighbours(last.pos) :
                        Admissible(Board, units, units[AskedUnit].team, n)}

\* a King asked about that stands at the edge beside a piece it may capture
KingAskedBesideEnemy ==
  /\ AskedIs(KING)
  /\ \E m \in MoveSet : Cell(Board, m) # Null
  /\ \E n \in Neighbours(last.pos) : ~IsValidPosition(Board, n)

IsEmptyCell(b, p) == IsValidPosition(b, p) /\ Cell(b, p) = Null

HoldsEnemyOf(b, U, team, p) ==
  IsValidPosition(b, p) /\ Cell(b, p) # Null /\ U[Cell(b, p)].team # team

Forward(team) == IF team = PLAYER THEN -1 ELSE 1

\* the moves of the pawn `unit` at pos as the description lists them
DescribedPawnMoves(b, U, unit, pos) ==
  LET d == Forward(unit.team)
      one == Pos(pos.row + d, pos.col)
      two == Pos(pos.row + 2 * d, pos.col)
      back == Pos(pos.row - d, pos.col)
  IN  {p \in {one} : IsEmptyCell(b, p)}
      \cup {p \in {two} : IsEmptyCell(b, one) /\ ~unit.hasMoved
                             /\ IsEmptyCell(b, p)}
      \cup {p \in {Pos(pos.row + d, pos.col - 1), Pos(pos.row + d, pos.col + 1)} :
               HoldsEnemyOf(b, U, unit.team, p)}
      \cup {p \in {back} : HasBuff(unit, "BACKWARD_MOVEMENT")
                              /\ IsEmptyCell(b, p)}

\* Scenario A: an unmoved player Pawn at (4,2), alone on the board
ScenarioA ==
  /\ last.pos = Pos(4, 2)
  /\ AskedIs(PAWN)
  /\ units[AskedUnit].team = PLAYER
  /\ ~units[AskedUnit].hasMoved
  /\ OccupiedCells(Board) = {Pos(4, 2)}

\* C19: a pawn's legal moves are exactly one row forward if in bounds and
\* empty, two rows forward if additionally the pawn has not moved and that
\* cell is in bounds and empty, each forward diagonal only if it holds an
\* opposing piece, and with BACKWARD_MOVEMENT one row backward if in bounds
\* and empty; the unmoved player pawn at (4,2) of an empty board has
\* exactly (3,2) and (2,2).
PawnMovesAsDescribed ==
  /\ AskedIs(PAWN) =>
       /\ NoMoveTwice
       /\ MoveSet = DescribedPawnMoves(Board, units, units[AskedUnit], last.pos)
  /\ ScenarioA => MoveSet = {Pos(3, 2), Pos(2, 2)}

\* an unmoved pawn asked about that may step once, step twice and capture
PawnAskedWithCapture ==
  /\ AskedIs(PAWN)
  /\ ~units[AskedUnit].hasMoved
  /\ Len(last.moves) = 3

\* Scenario B: a player Rook at (2,2), alone on the board
ScenarioB ==
  /\ last.pos = Pos(2, 2)
  /\ AskedIs(ROOK)
  /\ units[AskedUnit].team = PLAYER
  /\ OccupiedCells(Board) = {Pos(2, 2)}

\* C20 as stated: in Scenario B getValidMoves returns 16 cells.
ScenarioBSixteenCells == ScenarioB => Len(last.moves) = 16

\* C20: in Scenario B getValidMoves returns the 8 cells of row 2 and of
\* column 2 other than (2,2), each once: two in each of the 4 ray
\* directions up to the board edge.
ScenarioBEightCells ==
  ScenarioB =>
    /\ Len(last.moves) = 8
    /\ MoveSet = {p \in AnyCell : (p.row = 2 \/ p.col = 2) /\ p # Pos(2, 2)}

ScenarioBAnswered == ScenarioB /\ Len(last.moves) > 0

Directions == {Pos(dr, dc) : dr \in -1..1, dc \in -1..1} \ {Pos(0, 0)}

Orthogonals == {d \in Directions : d.row = 0 \/ d.col = 0}

Diagonals == Directions \ Orthogonals

DirectionsOf(type) ==
  CASE type = ROOK -> Orthogonals
    [] type = BISHOP -> Diagonals
    [] type = QUEEN -> Directions

\* the cells from pos outward along dir, at most `steps` of them, up to the
\* first cell that is off the board or occupied; that cell only if it holds
\* a piece of the other team
RayCells(b, U, team, pos, dir, steps) ==
  {Step(pos, dir, k) : k \in {k \in 1..steps :
     /\ Admissible(b, U, team, Step(pos, dir, k))
     /\ \A j \in 1..(k - 1) : IsEmptyCell(b, Step(pos, dir, j))}}

SlidingCells(b, U, team, pos, type, steps) ==
  UNION {RayCells(b, U, team, pos, dir, steps) : dir \in DirectionsOf(type)}

\* more steps than any ray of the board has cells
AnyLength(b) == b.rows + b.cols

\* the cap of the ray loop
RangeCap(unit) == IF HasBuff(unit, "EXTRA_RANGE") THEN 10 ELSE 8

AskedSlider == AskedIs(ROOK) \/ AskedIs(BISHOP) \/ AskedIs(QUEEN)

\* the legal moves from the cell asked about, were its piece of that type
MovesAs(type) ==
  LET moves == GetValidMoves(Board, [units EXCEPT ![AskedUnit].type = type],
                             last.pos)
  IN {moves[i] : i \in 1..Len(moves)}

QueenIsRookAndBishop ==
  AskedIs(QUEEN) => MoveSet = MovesAs(ROOK) \cup MovesAs(BISHOP)

\* C21 as stated: on every board the legal destinations of a Rook, Bishop
\* or Queen along each of its directions are the consecutive cells outward
\* up to the first out-of-bounds or occupied cell, that cell included only
\* if it holds an opposing piece; the Queen's moves are the Rook's and the
\* Bishop's from the same cell.
SlidingMovesReachTheEdge ==
  /\ AskedSlider =>
       /\ NoMoveTwice
       /\ MoveSet = SlidingCells(Board, units, units[AskedUnit].team, last.pos,
                                 units[AskedUnit].type, AnyLength(Board))
  /\ QueenIsRookAndBishop

\* C21: the legal destinations of a Rook, Bishop or Queen along each of its
\* directions are the consecutive cells outward up to the first
\* out-of-bounds or occupied cell, that cell included only if it holds an
\* opposing piece, and never more than 8 cells (10 with EXTRA_RANGE); the
\* Queen's moves are the Rook's and the Bishop's from the same cell.
SlidingMovesWithinRange ==
  /\ AskedSlider =>
       /\ NoMoveTwice
       /\ MoveSet = SlidingCells(Board, units, units[AskedUnit].team, last.pos,
                                 units[AskedUnit].type, RangeCap(units[AskedUnit]))
  /\ QueenIsRookAndBishop

\* a Queen asked about whose open ray is longer than its range and which
\* may capture along another
QueenAskedBeyondRange ==
  /\ AskedIs(QUEEN)
  /\ \E m \in MoveSet : Cell(Board, m) # Null
  /\ \E dir \in Directions :
       IsEmptyCell(Board, Step(last.pos, dir, RangeCap(units[AskedUnit]) + 1))
         /\ RayCells(Board, units, units[AskedUnit].team, last.pos, dir,
                     AnyLength(Board)) \ MoveSet # {}

\* the cells two steps along a rank or file and one step aside
KnightHops(pos) ==
  {q \in {Pos(pos.row + dr, pos.col + dc) : dr, dc \in -2..2} :
     (q.row - pos.row) * (q.row - pos.row)
       + (q.col - pos.col) * (q.col - pos.col) = 5}

AskedDoubleKnight == AskedIs(KNIGHT) /\ HasBuff(units[AskedUnit], "DOUBLE_MOVE")

\* the legal moves of the piece asked about, had it no buff
MovesUnbuffed ==
  LET moves == GetValidMoves(Board, [units EXCEPT ![AskedUnit].buffs = <<>>],
                             last.pos)
  IN {moves[i] : i \in 1..Len(moves)}

\* the admissible first hops of the Knight asked about from which a knight
\* hop leads to m
FirstHopsTo(m) ==
  {h \in KnightHops(last.pos) :
     Admissible(Board, units, units[AskedUnit].team, h) /\ m \in KnightHops(h)}

\* C22: the move list of a Knight with DOUBLE_MOVE contains every move the
\* same Knight has without the buff, no destination twice and never the
\* knight's own cell, and each added destination is an admissible cell a
\* knight hop away from an admissible first-hop destination, which may hold
\* an enemy piece.
DoubleMoveExtendsKnight ==
  AskedDoubleKnight =>
    /\ MovesUnbuffed \subseteq MoveSet
    /\ NoMoveTwice
    /\ last.pos \notin MoveSet
    /\ \A m \in MoveSet \ MovesUnbuffed :
         /\ Admissible(Board, units, units[AskedUnit].team, m)
         /\ FirstHopsTo(m) # {}

\* a Knight with DOUBLE_MOVE asked about that has a destination it reaches
\* only by hopping on from the cell of an enemy piece
DoubleKnightHopsOverEnemy ==
  /\ AskedDoubleKnight
  /\ \E m \in MoveSet \ MovesUnbuffed :
       /\ FirstHopsTo(m) # {}
       /\ \A h \in FirstHopsTo(m) : Cell(Board, h) # Null

----------------------------------------------------------------------------
(* The turn specification: a battle in one of the positions of             *)
(* TurnPositions with the opponent's turn scheduled by the player move     *)
(* just made, under the firing of that timer.  A Pawn away from the rows   *)
(* it is spawned on has moved.                                             *)

RowCells(rs) == {p \in AnyCell : p.row \in rs}

\* one enemy piece and one player piece anywhere, at a stage without the
\* safety term, with it, and without blunders; two pieces a side; a boss
\* battle with the King, and one whose King has been captured
TurnPositions ==
  {[stage |-> stage,
    pieces |-> <<Piece(enemy, ENEMY, AnyCell),
                 Piece(player, PLAYER, RowCells(1..(DefaultRows - 1)))>>] :
     stage \in {3, 5, 10}, enemy \in {PAWN, KNIGHT, ROOK}, player \in {PAWN, ROOK}}
  \cup
  {[stage |-> stage,
    pieces |-> <<Piece(KNIGHT, ENEMY, RowCells({2})), Piece(PAWN, ENEMY, RowCells({0})),
                 Piece(PAWN, PLAYER, RowCells({3})),
                 Piece(ROOK, PLAYER, RowCells({4}))>>] : stage \in {3, 5, 10}}
  \cup
  {[stage |-> 8, pieces |-> <<Piece(KING, ENEMY, AnyCell),
                              Piece(ROOK, PLAYER, AnyCell)>>],
   [stage |-> 8, pieces |-> <<Piece(ROOK, PLAYER, AnyCell)>>]}

\* the Unit object of a piece standing on `at`
Standing(piece, at) ==
  [NewUnit(piece.type, piece.team, at)
     EXCEPT !.hasMoved = /\ piece.type = PAWN
                         /\ at.row \notin (IF piece.team = PLAYER
                                           THEN {DefaultRows - 1} ELSE {0, 1})]

\* the roster: the player's Unit objects
RosterOf(U) == SelectSeq([i \in 1..Len(U) |-> i], LAMBDA u : U[u].team = PLAYER)

TurnWorld(position, placed) ==
  [board |-> placed.board,
   units |-> placed.units,
   scene |-> [NewScene EXCEPT !.pending = 1],
   run |-> [NewRunState EXCEPT !.playerUnits = RosterOf(placed.units),
                               !.currentStage = position.stage]]

InitWorld(w) ==
  /\ InitPlaced(w)
  /\ scene = w.scene
  /\ run = w.run

InitTurn ==
  /\ \E position \in TurnPositions :
       \E where \in [1..Len(position.pieces) -> AnyCell] :
         /\ \A i \in 1..Len(where) : where[i] \in position.pieces[i].cells
         /\ \A i, j \in 1..Len(where) : where[i] = where[j] => i = j
         /\ LET w == TurnWorld(position,
                       PlaceAll(EmptyBoard(DefaultRows, DefaultCols),
                                [i \in 1..Len(where) |->
                                   Standing(position.pieces[i], where[i])],
                                where, 1))
            IN ~CheckBattleEnd(w).over /\ InitWorld(w)
  /\ last = NoCall
  /\ ops = 0

NextTurn == DelayedCallFires

SpecTurn == InitTurn /\ [][NextTurn]_vars

----------------------------------------------------------------------------
(* Opponent turns against their description.  The world a turn started in  *)
(* is last.before; the cells of its board are read off the grid.           *)

EnemyTurned == last.op = "enemyTurn"

\* the turn executed a move
EnemyMoved == EnemyTurned /\ last.from # NoPosition

\* the turn executed the move selectBestMove returned
SmartMove == EnemyMoved /\ ~last.flag

CellsHeldBy(w, team) ==
  {p \in InBounds(w.board) :
     Cell(w.board, p) # Null /\ w.units[Cell(w.board, p)].team = team}

LegalMoves(w, p) ==
  LET moves == GetValidMoves(w.board, w.units, p)
  IN {moves[i] : i \in 1..Len(moves)}

MovableEnemies(w) == {p \in CellsHeldBy(w, ENEMY) : LegalMoves(w, p) # {}}

Apart(a, b) == IF a > b THEN a - b ELSE b - a

Manhattan(p, q) == Apart(p.row, q.row) + Apart(p.col, q.col)

\* the cells of the player pieces nearest to `from`
Nearest(w, from) ==
  {q \in CellsHeldBy(w, PLAYER) :
     \A o \in CellsHeldBy(w, PLAYER) : Manhattan(from, q) <= Manhattan(from, o)}

\* the nearest player piece, the first in row-major order of several
FirstNearest(w, from) ==
  CHOOSE q \in Nearest(w, from) :
    \A o \in Nearest(w, from) : q.row < o.row \/ (q.row = o.row /\ q.col <= o.col)

DescribedScore(w, from, to) ==
  (IF to \in CellsHeldBy(w, PLAYER) THEN 100 ELSE 0)
  - (IF /\ w.run.currentStage > 4
        /\ \E q \in CellsHeldBy(w, PLAYER) : to \in LegalMoves(w, q)
     THEN 50 ELSE 0)
  + (IF /\ CellsHeldBy(w, PLAYER) # {}
        /\ Manhattan(to, FirstNearest(w, from)) < Manhattan(from, FirstNearest(w, from))
     THEN 10 ELSE 0)

\* the board is the board the turn started on but for one moveUnit, a legal
\* move of an enemy piece on that board
OneEnemyMoveMade ==
  /\ last.from \in CellsHeldBy(last.before, ENEMY)
  /\ last.pos \in LegalMoves(last.before, last.from)
  /\ \A p \in InBounds(Board) :
       Cell(Board, p) = IF p = last.from THEN Null
                        ELSE IF p = last.pos THEN Cell(last.before.board, last.from)
                        ELSE Cell(last.before.board, p)

\* C24: when the opponent does not blunder (always, from stage 10 on), the
\* move executed is the first of the picked piece's legal moves, in the
\* order they are generated, whose score is maximal; and a turn that
\* starts with a movable enemy piece performs exactly one moveUnit, a legal
\* move of an enemy piece on the board of that moment.
BestMoveExecuted ==
  /\ (EnemyTurned /\ last.before.run.currentStage >= 10) => ~last.flag
  /\ SmartMove =>
       /\ last.moves = GetValidMoves(last.before.board, last.before.units, last.from)
       /\ \E i \in 1..Len(last.moves) :
            /\ last.moves[i] = last.pos
            /\ \A j \in 1..Len(last.moves) : last.log[j] <= last.log[i]
            /\ \A j \in 1..(i - 1) : last.log[j] < last.log[i]
  /\ (EnemyTurned /\ MovableEnemies(last.before) # {}) =>
       EnemyMoved /\ OneEnemyMoveMade

\* a turn of stage 10 with two movable enemy pieces that executes the
\* first of several moves of the highest score
TieBrokenAtStageTen ==
  /\ SmartMove
  /\ last.before.run.currentStage = 10
  /\ Cardinality(MovableEnemies(last.before)) = 2
  /\ \E i, j \in 1..Len(last.moves) :
       i < j /\ last.moves[i] = last.pos /\ last.log[j] = last.log[i]

\* C25: the score of an opponent move is 100 if the destination holds a
\* player piece, minus 50 if the stage is above 4 and the destination is a
\* legal move of some player piece on the current board, plus 10 if the
\* destination is strictly closer, in Manhattan distance, than the origin
\* to the player piece nearest to the origin.
ScoresAsDescribed ==
  SmartMove =>
    /\ Len(last.log) = Len(last.moves)
    /\ \A i \in 1..Len(last.moves) :
         last.log[i] = DescribedScore(last.before, last.from, last.moves[i])

\* a turn above stage 4 that scored a capture and an approach to an
\* attacked cell
ScoredCaptureAndAttackedCell ==
  /\ SmartMove
  /\ \E i, j \in 1..Len(last.log) : last.log[i] = 110 /\ last.log[j] = -40

\* checkBattleEnd finds the battle over in the world the turn started in
OverBefore ==
  CheckBattleEnd([board |-> last.before.board, units |-> last.before.units,
                  scene |-> NewScene, run |-> last.before.run]).over

\* C26: a turn of the opponent that starts with no enemy piece that has a
\* legal move, or with no enemy piece, in a battle that is not over leaves
\* the board, the roster, the gold and the stage as they were.
IdleTurnChangesNothing ==
  (EnemyTurned /\ MovableEnemies(last.before) = {} /\ ~OverBefore) =>
    /\ ~EnemyMoved
    /\ Board = last.before.board
    /\ units = last.before.units
    /\ run = last.before.run

\* a turn of an opponent whose only piece is blocked
BlockedEnemyTurn ==
  /\ EnemyTurned
  /\ ~OverBefore
  /\ CellsHeldBy(last.before, ENEMY) # {}
  /\ MovableEnemies(last.before) = {}

----------------------------------------------------------------------------
(* The unit specification: one Unit object as its constructor leaves it,   *)
(* under at most MaxUnitCalls calls of addBuff, removeBuff, takeDamage and *)
(* setHealth.  last records the SHIELD buffs (count) and the health (size) *)
(* the Unit had before the call, the number the call was given (ret) and   *)
(* what isAlive returns after it (flag).                                   *)

BuffTypes == {"SHIELD", "EXTRA_RANGE"}

Damages == {0, 1, 2}

Healths == {-1, 0, 1, 2}

Shields(unit) == Len(SelectSeq(unit.buffs, LAMBDA buff : buff = "SHIELD"))

InitUnit ==
  /\ InitPlaced([board |-> EmptyBoard(DefaultRows, DefaultCols),
                 units |-> <<NewUnit(ROOK, PLAYER, Pos(0, 0))>>])
  /\ last = NoCall
  /\ ops = 0
  /\ scene = NewScene
  /\ run = NewRunState

UnitCall(op, given, unit) ==
  /\ ops < MaxUnitCalls
  /\ ops' = ops + 1
  /\ units' = <<unit>>
  /\ last' = [NoCall EXCEPT !.op = op, !.count = Shields(units[1]),
                            !.size = units[1].health, !.ret = given,
                            !.flag = IsAlive(unit)]
  /\ UNCHANGED <<grid, rows, cols, scene, run>>

AddBuffCall(buffType) == UnitCall("addBuff", 0, Buffed(units[1], buffType))

RemoveBuffCall(buffType) ==
  UnitCall("removeBuff", 0, RemoveBuff(units[1], buffType))

TakeDamageCall(damage) ==
  UnitCall("takeDamage", damage, TakeDamage(units[1], damage))

SetHealthCall(health) == UnitCall("setHealth", health, SetHealth(units[1], health))

NextUnitCall ==
  \/ \E buffType \in BuffTypes : AddBuffCall(buffType)
  \/ \E buffType \in BuffTypes : RemoveBuffCall(buffType)
  \/ \E damage \in Damages : TakeDamageCall(damage)
  \/ \E health \in Healths : SetHealthCall(health)

SpecUnit == InitUnit /\ [][NextUnitCall]_vars

\* C27: shields stack and are consumed one at a time: takeDamage on a piece
\* carrying k >= 1 SHIELD buffs leaves its health unchanged and leaves
\* exactly k - 1 SHIELD buffs.
ShieldsAbsorbOneHitEach ==
  (last.op = "takeDamage" /\ last.count >= 1) =>
    /\ units[1].health = last.size
    /\ Shields(units[1]) = last.count - 1

\* C39: the health of a piece stays within 0..maxHealth under setHealth with
\* any number and takeDamage with a damage of 0 or more: setHealth leaves
\* the number given, brought into 0..maxHealth; takeDamage leaves the health
\* less the damage, and 0 when that is below 0, or the health as it was when
\* a SHIELD took the hit; isAlive returns true exactly when the health is
\* above 0.
HealthStaysInRange ==
  /\ units[1].health \in 0..units[1].maxHealth
  /\ last.op # "none" => (last.flag <=> units[1].health > 0)
  /\ last.op = "setHealth" =>
       units[1].health = (IF last.ret < 0 THEN 0
                          ELSE IF last.ret > units[1].maxHealth
                          THEN units[1].maxHealth ELSE last.ret)
  /\ last.op = "takeDamage" =>
       units[1].health = (IF last.count >= 1 THEN last.size
                          ELSE IF last.size - last.ret < 0 THEN 0
                          ELSE last.size - last.ret)

\* a piece at health 0 is given more health than it can hold
HealedAboveMaxHealth ==
  /\ last.op = "setHealth"
  /\ last.size = 0
  /\ last.ret > units[1].maxHealth
  /\ units[1].health = units[1].maxHealth

----------------------------------------------------------------------------
(* The roll specification: a run at any stage up to MaxStage, under the    *)
(* blunder roll of one opponent turn.  The roll Math.random() returns is   *)
(* an argument, in hundredths; last records the blunder chance computed    *)
(* (count), the roll (size) and whether the turn blunders (flag).          *)

Rolls == {5 * k : k \in 0..19}

InitRoll ==
  /\ InitPlaced([board |-> EmptyBoard(DefaultRows, DefaultCols), units |-> <<>>])
  /\ last = NoCall
  /\ ops = 0
  /\ scene = NewScene
  /\ \E stage \in 1..MaxStage : run = [NewRunState EXCEPT !.currentStage = stage]

BlunderRoll(roll) ==
  /\ last.op = "none"
  /\ last' = [NoCall EXCEPT !.op = "roll",
                            !.count = BlunderChance(run.currentStage),
                            !.size = roll,
                            !.flag = roll < BlunderChance(run.currentStage)]
  /\ ops' = ops + 1
  /\ UNCHANGED <<grid, rows, cols, units, scene, run>>

NextRoll == \E roll \in Rolls : BlunderRoll(roll)

SpecRoll == InitRoll /\ [][NextRoll]_vars

Rolled == last.op = "roll"

\* C23: the blunder probability computed in makeEnemyMove is, in
\* hundredths, 40 at stage 1, 35 at stage 2, 30 at stage 3, 25 at stage 4,
\* 20 at stages 5 to 9 and 0 from stage 10 on, and it is not larger at the
\* next stage than at this one.
BlunderChanceByStage ==
  Rolled =>
    /\ run.currentStage = 1 => last.count = 40
    /\ run.currentStage = 2 => last.count = 35
    /\ run.currentStage = 3 => last.count = 30
    /\ run.currentStage = 4 => last.count = 25
    /\ run.currentStage \in 5..9 => last.count = 20
    /\ run.currentStage >= 10 => last.count = 0
    /\ BlunderChance(run.currentStage + 1) <= last.count

\* an opponent turn of stage 4 that blunders on a roll of 0.2
BlunderAtStageFour ==
  Rolled /\ run.currentStage = 4 /\ last.size = 20 /\ last.flag

----------------------------------------------------------------------------
(* Battles against their description.                                      *)

InRoster(u) == InSeq(run.playerUnits, u)

\* C11: a player piece captured during the battle is in the roster in no
\* later state and stands on no cell of the board again; the player pieces
\* that do stand on the board are all in the roster.
Permadeath ==
  /\ \A u \in last.lost : ~InRoster(u) /\ CellsOf(Board, u) = {}
  /\ \A p \in OccupiedCells(Board) :
       units[Cell(Board, p)].team = PLAYER => InRoster(Cell(Board, p))

\* a player piece has been captured and the battle has gone on to a click
LostAndPlayingOn == last.lost # {} /\ scene.active /\ last.op = "click"

IsMove == last.op \in {"playerMove", "enemyTurn"}

\* a player move has put a player pawn on row 0
PawnReachedTopRow ==
  /\ last.op = "playerMove"
  /\ last.unit # Null
  /\ units[last.unit].type = PAWN
  /\ units[last.unit].team = PLAYER
  /\ last.pos.row = 0

PromotedAt(pos, pawn) ==
  LET promotedUnit == GetUnit(Board, pos)
  IN /\ promotedUnit # Null
     /\ promotedUnit # pawn
     /\ units[promotedUnit].team = PLAYER
     /\ units[promotedUnit].type \in {ROOK, KNIGHT, BISHOP}
     /\ units[promotedUnit].buffs = units[pawn].buffs
     /\ CellsOf(Board, promotedUnit) = {pos}
     /\ InRoster(promotedUnit)

\* C16: right after a player move that puts a player pawn on row 0 the
\* cell holds a PLAYER Rook, Knight or Bishop carrying exactly the pawn's
\* buffs, the pawn is neither on the board nor in the roster, the new piece
\* is in both and the roster has the size it had; a move that ends with an
\* enemy piece on its destination creates no piece and leaves that piece
\* where it is (enemy pawns are never promoted).
PromotionOnTopRow ==
  /\ PawnReachedTopRow =>
       /\ PromotedAt(last.pos, last.unit)
       /\ CellsOf(Board, last.unit) = {}
       /\ ~InRoster(last.unit)
       /\ Len(run.playerUnits) = last.size
       /\ Len(units) = last.made + 1
  /\ (IsMove /\ last.unit # Null /\ units[last.unit].team = ENEMY) =>
       /\ Len(units) = last.made
       /\ GetUnit(Board, last.pos) = last.unit

\* the buffed pawn has been promoted
BuffedPawnPromoted == PawnReachedTopRow /\ units[last.unit].buffs # <<>>

\* a player move has captured the enemy King
KingCaptured ==
  /\ last.op = "playerMove"
  /\ last.ret # Null
  /\ units[last.ret].type = KING
  /\ units[last.ret].team = ENEMY

\* C17: on a boss stage, the player move that captures the enemy King ends
\* the battle in victory: the reward is paid, the stage advances and the
\* battle is over.
KingCaptureWins ==
  KingCaptured =>
    /\ ~scene.active
    /\ run.gold > NewRunState.gold
    /\ ~IsBossStage(run)

\* the stage of the battle the last move was made in
BattleStage == last.before.run.currentStage

NormalStage == BattleStage % 4 # 0

\* the RunState has the gold and the stage the last move started with
NoReward ==
  run.gold = last.before.run.gold /\ run.currentStage = BattleStage

\* C28: at every end-condition check (after each move, and when an
\* opponent turn starts) the battle ends in defeat if no player piece is
\* on the board, whatever else holds; on a stage that is not a boss stage
\* it ends in victory if no enemy piece is on the board and a player piece
\* is, and stays active if both teams have a piece.
BattleEndsAsDescribed ==
  IsMove =>
    /\ CellsHeldBy(World, PLAYER) = {} => ~scene.active /\ NoReward
    /\ (NormalStage /\ CellsHeldBy(World, PLAYER) # {}
          /\ CellsHeldBy(World, ENEMY) = {}) =>
         ~scene.active /\ run.currentStage = BattleStage + 1
    /\ (NormalStage /\ CellsHeldBy(World, PLAYER) # {}
          /\ CellsHeldBy(World, ENEMY) # {}) =>
         scene.active /\ NoReward

\* the opponent has captured the last player piece
LastPlayerPieceCaptured ==
  /\ last.op = "enemyTurn"
  /\ last.ret # Null
  /\ CellsHeldBy(World, PLAYER) = {}
  /\ CellsHeldBy(World, ENEMY) # {}

\* the stages the battles start on
BattleStages == {battle.stage : battle \in Battles}

DescribedReward(stage) ==
  50 + 10 * (stage \div 4) + (IF stage % 4 = 0 THEN 100 ELSE 0)

\* the battle that started on `stage` has been won and paid for once
WonOnce(stage) ==
  /\ ~scene.active
  /\ run.currentStage = stage + 1
  /\ run.gold = NewRunState.gold + DescribedReward(stage)

PlayerMovesAreLegal ==
  last.op = "playerMove" =>
    /\ last.from \in CellsHeldBy(last.before, PLAYER)
    /\ last.pos \in LegalMoves(last.before, last.from)

\* C33: while the battle is running and no opponent turn is scheduled, a
\* player piece on the board has a legal move.
BattleNeverStalls ==
  (scene.active /\ scene.pending = 0) =>
    \E p \in CellsHeldBy(World, PLAYER) : LegalMoves(World, p) # {}

----------------------------------------------------------------------------
(* BattleScene.ts: setupBattle.  A setup is the record of what the setup   *)
(* methods read and write (board, Unit objects, RunState) together with    *)
(* the relocations ensureReachability made or found no empty cell for     *)
(* (log; `to` is then NoPosition), the attempts ensureSolvability has      *)
(* counted and whether it gave up.  Random draws are arguments: the cells  *)
(* and kinds tryPlaceEnemyUnit and createRandomEnemyPiece come up with,    *)
(* and for every shuffle or pick a seed.                                   *)

MaxAttempts == 20

NewSetup(b, U, r) ==
  [board |-> b, units |-> U, run |-> r, log |-> <<>>, attempts |-> 0,
   gaveUp |-> FALSE, reach |-> <<>>]

\* runState.getDifficultyFactor, in tenths: 1 + (stage - 1) * 0.2
DifficultyTenths(r) == 10 + (r.currentStage - 1) * 2

\* spawnEnemyUnits: floor(2 + difficulty * 2), on a boss stage
\* floor(3 + difficulty * 1.5)
EnemyCount(r) ==
  IF IsBossStage(r) THEN (300 + DifficultyTenths(r) * 15) \div 100
  ELSE (20 + DifficultyTenths(r) * 2) \div 10

\* createRandomEnemyPiece: the kinds RND.pick chooses from
EnemyTypes(r) ==
  IF DifficultyTenths(r) > 20 THEN {PAWN, ROOK, KNIGHT, BISHOP, QUEEN}
  ELSE {PAWN, ROOK, KNIGHT, BISHOP}

\* spawnPlayerUnits: an empty roster gets a starting pawn
WithStartingPawn(st) ==
  IF st.run.playerUnits # <<>> THEN st
  ELSE [st EXCEPT !.units = Append(@, NewUnit(PAWN, PLAYER,
                                             Pos(st.board.rows - 1,
                                                 st.board.cols \div 2))),
                  !.run = AddRosterUnit(@, Len(st.units) + 1)]

PlacedIn(st, placed) == [st EXCEPT !.board = placed.board, !.units = placed.units]

\* spawnPlayerUnits: the placement loop, the result of placeUnit ignored
RECURSIVE SpawnPlayers(_, _, _)
SpawnPlayers(st, playerUnits, placementIndex) ==
  IF placementIndex >= Len(playerUnits) THEN st
  ELSE SpawnPlayers(
         PlacedIn(st, PlaceUnit(st.board, st.units, playerUnits[placementIndex + 1],
                                Pos(st.board.rows - 1,
                                    placementIndex % st.board.cols))),
         playerUnits, placementIndex + 1)

SpawnRoster(st) == SpawnPlayers(st, st.run.playerUnits, 0)

SpawnPlayerUnits(st) == SpawnRoster(WithStartingPawn(st))

\* new Unit at tempPos, then placeUnit(unit, pos)
PlaceNew(st, type, tempPos, pos) ==
  PlacedIn(st, PlaceUnit(st.board, Append(st.units, NewUnit(type, ENEMY, tempPos)),
                         Len(st.units) + 1, pos))

\* spawnEnemyUnits: the boss King
SpawnKing(st) ==
  IF IsBossStage(st.run)
  THEN PlaceNew(st, KING, Pos(0, st.board.cols \div 2), Pos(0, st.board.cols \div 2))
  ELSE st

\* spawnEnemyUnits: the loop, cells[i] being the empty cell tryPlaceEnemyUnit
\* found for the i-th piece and kinds[i] its kind
RECURSIVE SpawnEnemies(_, _, _, _)
SpawnEnemies(st, cells, kinds, i) ==
  IF i > Len(cells) THEN st
  ELSE SpawnEnemies(PlaceNew(st, kinds[i], Pos(0, 0), cells[i]), cells, kinds, i + 1)

\* reachableColumns
LaneColumns(b, pawnCol) ==
  {col \in {pawnCol - 1, pawnCol, pawnCol + 1} : col >= 0 /\ col < b.cols}

HasEnemyInLane(b, U, enemyUnits, pawnCol) ==
  \E j \in 1..Len(enemyUnits) :
    U[enemyUnits[j]].position.col \in LaneColumns(b, pawnCol)

ColumnDistance(U, enemy, pawnCol) == Abs(U[enemy].position.col - pawnCol)

\* closestEnemy: the first of enemyUnits at the minimum column distance
ClosestEnemy(U, enemyUnits, pawnCol) ==
  enemyUnits[CHOOSE j \in 1..Len(enemyUnits) :
               \A k \in 1..Len(enemyUnits) :
                 \/ ColumnDistance(U, enemyUnits[j], pawnCol)
                      < ColumnDistance(U, enemyUnits[k], pawnCol)
                 \/ /\ ColumnDistance(U, enemyUnits[j], pawnCol)
                         = ColumnDistance(U, enemyUnits[k], pawnCol)
                    /\ j <= k]

\* preferred columns that start with the pawn's own
PreferredColumnsOwnFirst(b, pawnCol) ==
  SelectSeq(<<pawnCol, pawnCol + 1, pawnCol - 1>>,
            LAMBDA col : col = pawnCol \/ (col >= 0 /\ col < b.cols))

\* preferredColumns: C+1, C, C-1 without the ones off the board
PreferredColumns(b, pawnCol) ==
  SelectSeq(<<pawnCol + 1, pawnCol, pawnCol - 1>>,
            LAMBDA col : col = pawnCol \/ (col >= 0 /\ col < b.cols))

\* Shuffle(targetRows): the rows 0 .. playerRow - 1 in the order the seed gives
ShuffledRows(playerRow, seed) ==
  [i \in 1..playerRow |-> (seed + i - 1) % playerRow]

\* the cells the two nested loops visit, in their order
TargetCells(b, playerPos, seed) ==
  Flatten([c \in 1..Len(PreferredColumns(b, playerPos.col)) |->
             [i \in 1..playerPos.row |->
                Pos(ShuffledRows(playerPos.row, seed)[i],
                    PreferredColumns(b, playerPos.col)[c])]])

\* the cells of those loops that pass the test, the first one the target
EmptyTargets(b, playerPos, seed) ==
  SelectSeq(TargetCells(b, playerPos, seed),
            LAMBDA targetPos : IsValidPosition(b, targetPos)
                                 /\ GetUnit(b, targetPos) = Null)

Relocation(st, pawn, enemy, enemyUnits, targetPos, moved) ==
  [pawn |-> pawn, enemy |-> enemy, enemyUnits |-> enemyUnits,
   from |-> st.units[enemy].position, to |-> targetPos, captured |-> moved.ret,
   before |-> [board |-> st.board, units |-> st.units],
   after |-> [board |-> moved.board, units |-> moved.units]]

Logged(st, pawn, enemy, enemyUnits, targetPos, moved) ==
  [PlacedIn(st, moved) EXCEPT
     !.log = Append(@, Relocation(st, pawn, enemy, enemyUnits, targetPos, moved))]

\* moveUnit(closestEnemy.getPosition(), targetPos)
MoveIntoLane(st, pawn, enemy, enemyUnits, targets) ==
  IF targets = <<>>
  THEN Logged(st, pawn, enemy, enemyUnits, NoPosition,
              [board |-> st.board, units |-> st.units, ret |-> Null])
  ELSE Logged(st, pawn, enemy, enemyUnits, Head(targets),
              MoveUnit(st.board, st.units, st.units[enemy].position, Head(targets)))

\* ensureReachability: the body of the loop for one player pawn
RepairLane(st, pawn, enemyUnits, seed) ==
  IF HasEnemyInLane(st.board, st.units, enemyUnits, st.units[pawn].position.col)
  THEN st
  ELSE MoveIntoLane(st, pawn,
                    ClosestEnemy(st.units, enemyUnits, st.units[pawn].position.col),
                    enemyUnits,
                    EmptyTargets(st.board, st.units[pawn].position, seed))

\* ensureReachability: the loop over playerUnits, the k-th pawn shuffling
\* with seeds[k]
RECURSIVE ReachFrom(_, _, _, _, _, _)
ReachFrom(st, playerUnits, enemyUnits, seeds, i, k) ==
  IF i > Len(playerUnits) THEN st
  ELSE IF st.units[playerUnits[i]].type # PAWN
  THEN ReachFrom(st, playerUnits, enemyUnits, seeds, i + 1, k)
  ELSE ReachFrom(RepairLane(st, playerUnits[i], enemyUnits, seeds[k]),
                 playerUnits, enemyUnits, seeds, i + 1, k + 1)

ReachWith(st, playerUnits, enemyUnits, seeds) ==
  IF playerUnits = <<>> \/ enemyUnits = <<>> THEN st
  ELSE ReachFrom(st, playerUnits, enemyUnits, seeds, 1, 1)

EnsureReachability(st, seeds) ==
  ReachWith(st, GetUnitsByTeam(st.board, st.units, PLAYER),
            GetUnitsByTeam(st.board, st.units, ENEMY), seeds)

\* spawnEnemyUnits
SpawnEnemyUnits(st, cells, kinds, seeds) ==
  EnsureReachability(SpawnEnemies(SpawnKing(st), cells, kinds, 1), seeds)

\* ensureSolvability: hasValidMove
PlayerHasMove(b, U, playerUnits) ==
  \E i \in 1..Len(playerUnits) :
    GetValidMoves(b, U, U[playerUnits[i]].position) # <<>>

Fixed(b, U, moved) == [fixed |-> TRUE, board |-> moved.board, units |-> moved.units]

NotFixed(b, U) == [fixed |-> FALSE, board |-> b, units |-> U]

\* Strategy 3: the first enemy with a legal move makes the move RND.pick
\* chooses
RandomEnemyMove(b, U, movers, seed) ==
  IF movers = <<>> THEN NotFixed(b, U)
  ELSE Fixed(b, U,
             MoveUnit(b, U, U[Head(movers)].position,
                      GetValidMoves(b, U, U[Head(movers)].position)
                        [(seed % Len(GetValidMoves(b, U, U[Head(movers)].position))) + 1]))

Strategy3(b, U, enemyUnits, seed) ==
  RandomEnemyMove(b, U,
                  SelectSeq(enemyUnits,
                            LAMBDA enemy : GetValidMoves(b, U, U[enemy].position) # <<>>),
                  seed)

\* Strategy 2: for the possible move `move` of a player unit that an enemy
\* stands on, the relocations of that enemy the inner loop accepts
Unblockings(b, U, move) ==
  IF GetUnit(b, move) = Null THEN <<>>
  ELSE IF U[GetUnit(b, move)].team # ENEMY THEN <<>>
  ELSE [i \in 1..Len(SelectSeq(GetValidMoves(b, U, U[GetUnit(b, move)].position),
                               LAMBDA enemyMove : enemyMove # move)) |->
          [from |-> U[GetUnit(b, move)].position,
           to |-> SelectSeq(GetValidMoves(b, U, U[GetUnit(b, move)].position),
                            LAMBDA enemyMove : enemyMove # move)[i]]]

UnblockingsOf(b, U, validMoves) ==
  Flatten([m \in 1..Len(validMoves) |-> Unblockings(b, U, validMoves[m])])

AllUnblockings(b, U, playerUnits) ==
  Flatten([i \in 1..Len(playerUnits) |->
             UnblockingsOf(b, U, GetPossibleMoves(b, U, playerUnits[i],
                                                  U[playerUnits[i]].position))])

Unblock(b, U, enemyUnits, seed, unblockings) ==
  IF unblockings = <<>> THEN Strategy3(b, U, enemyUnits, seed)
  ELSE Fixed(b, U, MoveUnit(b, U, Head(unblockings).from, Head(unblockings).to))

Strategy2(b, U, playerUnits, enemyUnits, seed) ==
  Unblock(b, U, enemyUnits, seed, AllUnblockings(b, U, playerUnits))

\* Strategy 1: the empty cells diagonally in front of the player pawns
CapturePositions(b, U, pawn) ==
  SelectSeq(<<Pos(U[pawn].position.row - 1, U[pawn].position.col - 1),
              Pos(U[pawn].position.row - 1, U[pawn].position.col + 1)>>,
            LAMBDA capturePos : IsValidPosition(b, capturePos)
                                  /\ GetUnit(b, capturePos) = Null)

AllCapturePositions(b, U, playerUnits) ==
  Flatten([i \in 1..Len(playerUnits) |->
             IF U[playerUnits[i]].type = PAWN
             THEN CapturePositions(b, U, playerUnits[i]) ELSE <<>>])

Threaten(b, U, playerUnits, enemyUnits, seed, capturePositions) ==
  IF capturePositions = <<>> THEN Strategy2(b, U, playerUnits, enemyUnits, seed)
  ELSE Fixed(b, U, MoveUnit(b, U, U[Head(enemyUnits)].position,
                            Head(capturePositions)))

Strategy1(b, U, playerUnits, enemyUnits, seed) ==
  Threaten(b, U, playerUnits, enemyUnits, seed,
           AllCapturePositions(b, U, playerUnits))

\* Strategy 0: the player pawns with no enemy in their lane and an empty
\* cell to relocate one to
LanelessPawns(b, U, playerUnits, enemyUnits, seed) ==
  SelectSeq(playerUnits,
            LAMBDA playerUnit :
              /\ U[playerUnit].type = PAWN
              /\ ~HasEnemyInLane(b, U, enemyUnits, U[playerUnit].position.col)
              /\ EmptyTargets(b, U[playerUnit].position, seed) # <<>>)

FillLane(b, U, playerUnits, enemyUnits, seed, pawns) ==
  IF pawns = <<>> THEN Strategy1(b, U, playerUnits, enemyUnits, seed)
  ELSE Fixed(b, U,
             MoveUnit(b, U,
                      U[ClosestEnemy(U, enemyUnits, U[Head(pawns)].position.col)].position,
                      Head(EmptyTargets(b, U[Head(pawns)].position, seed))))

Strategy0(b, U, playerUnits, enemyUnits, seed) ==
  FillLane(b, U, playerUnits, enemyUnits, seed,
           LanelessPawns(b, U, playerUnits, enemyUnits, seed))

FixWith(b, U, playerUnits, enemyUnits, seed) ==
  IF playerUnits = <<>> \/ enemyUnits = <<>> THEN NotFixed(b, U)
  ELSE Strategy0(b, U, playerUnits, enemyUnits, seed)

FixUnsolvablePosition(b, U, seed) ==
  FixWith(b, U, GetUnitsByTeam(b, U, PLAYER), GetUnitsByTeam(b, U, ENEMY), seed)

\* ensureSolvability: the while loop from `attempts` on
RECURSIVE SolveFrom(_, _)
AfterFix(st, fix, seed) ==
  IF ~fix.fixed THEN [st EXCEPT !.gaveUp = TRUE]
  ELSE SolveFrom([st EXCEPT !.board = fix.board, !.units = fix.units,
                            !.attempts = @ + 1], seed)

SolveFrom(st, seed) ==
  IF st.attempts >= MaxAttempts THEN [st EXCEPT !.gaveUp = TRUE]
  ELSE IF PlayerHasMove(st.board, st.units,
                        GetUnitsByTeam(st.board, st.units, PLAYER))
  THEN st
  ELSE AfterFix(st, FixUnsolvablePosition(st.board, st.units, seed), seed)

\* an ensureSolvability that relocates before it looks
EnsureSolvabilityEager(st, seed) ==
  AfterFix(st, FixUnsolvablePosition(st.board, st.units, seed), seed)

EnsureSolvability(st, seed) == SolveFrom(st, seed)

\* the board as spawnEnemyUnits leaves it
Reached(st) == [st EXCEPT !.reach = [board |-> st.board, units |-> st.units]]

\* setupBattle, ensureSolvability drawing with the first seed
SetupBattle(st, cells, kinds, seeds) ==
  EnsureSolvability(
    Reached(SpawnEnemyUnits(SpawnPlayerUnits(st), cells, kinds, seeds)),
    seeds[1])

----------------------------------------------------------------------------
(* The setup specification: a RunState of Runs (stage, roster, purchased   *)
(* board expansions) with its roster Units as PathSelectionScene creates   *)
(* them, under create(): a new BoardManager of the RunState's dimensions   *)
(* and setupBattle, for every set of at most MaxSpawned cells the enemy    *)
(* pieces can come to stand on, kinds among SpawnedKinds and every seed.   *)
(* Unit objects of the enemies are numbered in the order of their cells;   *)
(* the code reads no such number.                                          *)

MaxSpawned == 4

SpawnedKinds == {PAWN, KNIGHT}

Runs ==
  { [stage |-> 1, roster |-> <<>>, expansions |-> 0],
    [stage |-> 2, roster |-> <<KNIGHT, ROOK, PAWN>>, expansions |-> 0],
    [stage |-> 4, roster |-> <<PAWN, PAWN>>, expansions |-> 0],
    [stage |-> 2, roster |-> <<PAWN, KNIGHT, ROOK, BISHOP, PAWN>>, expansions |-> 0],
    [stage |-> 3, roster |-> <<ROOK, KNIGHT, BISHOP, PAWN, QUEEN, PAWN>>,
     expansions |-> 1],
    [stage |-> 1, roster |-> <<ROOK, KNIGHT, BISHOP, ROOK, KNIGHT, BISHOP>>,
     expansions |-> 0] }

\* purchaseItem: expandBoardRows(1) and expandBoardCols(1) per expansion
Expanded(r, expansions) ==
  [r EXCEPT !.boardRows = @ + expansions, !.boardCols = @ + expansions]

InitSetup ==
  \E r \in Runs :
    /\ run = Expanded([NewRunState EXCEPT !.currentStage = r.stage,
                                          !.playerUnits = [i \in 1..Len(r.roster) |-> i]],
                      r.expansions)
    /\ units = [i \in 1..Len(r.roster) |-> NewUnit(r.roster[i], PLAYER, Pos(0, 0))]
    /\ grid = CreateEmptyGrid(DefaultRows + r.expansions, DefaultCols + r.expansions)
    /\ rows = DefaultRows + r.expansions
    /\ cols = DefaultCols + r.expansions
    /\ last = NoCall
    /\ ops = 0
    /\ scene = NewScene

\* create: new BoardManager(dimensions.rows, dimensions.cols)
Created == NewSetup(EmptyBoard(run.boardRows, run.boardCols), units, run)

\* tryPlaceEnemyUnit: the cells of the top two rows, in scan order
TopCells(b) ==
  [i \in 1..(2 * b.cols) |-> Pos((i - 1) \div b.cols, (i - 1) % b.cols)]

AnyTopCell(b) == {TopCells(b)[i] : i \in 1..(2 * b.cols)}

\* the setup when the random pieces are about to be spawned
BeforeSpawn == SpawnKing(SpawnPlayerUnits(Created))

\* tryPlaceEnemyUnit places on empty cells only; it can fail, and end the
\* loop early, once a cell of the top rows is taken
SpawnChoices(st) ==
  {chosen \in SUBSET {p \in AnyTopCell(st.board) : GetUnit(st.board, p) = Null} :
     /\ Cardinality(chosen) <= MaxSpawned
     /\ Cardinality(chosen) <= EnemyCount(st.run)
     /\ Cardinality(chosen) >= (IF IsBossStage(st.run) THEN 0 ELSE 1)}

CellsAt(b, chosen) == SelectSeq(TopCells(b), LAMBDA p : p \in chosen)

PawnsOnBoard(st) ==
  SelectSeq(GetUnitsByTeam(st.board, st.units, PLAYER),
            LAMBDA u : st.units[u].type = PAWN)

\* whether a repair will draw at all
DrawsSeeds(st) ==
  \/ \E i \in 1..Len(PawnsOnBoard(st)) :
       ~HasEnemyInLane(st.board, st.units, GetUnitsByTeam(st.board, st.units, ENEMY),
                       st.units[PawnsOnBoard(st)[i]].position.col)
  \/ ~PlayerHasMove(st.board, st.units, GetUnitsByTeam(st.board, st.units, PLAYER))

NoSeeds(n) == [i \in 1..n |-> 0]

\* one seed for every player pawn, at least one
SeedsOf(st, n) ==
  IF DrawsSeeds(st) THEN [1..n -> 0..(st.board.rows - 2)] ELSE {NoSeeds(n)}

SeedsFor(st) ==
  SeedsOf(st, IF PawnsOnBoard(st) = <<>> THEN 1 ELSE Len(PawnsOnBoard(st)))

SetupDone(done) ==
  [NoCall EXCEPT !.op = "setupBattle", !.log = done.log, !.reach = done.reach,
                 !.count = done.attempts, !.flag = done.gaveUp]

SetWorldAfterSetup(done) ==
  /\ SetBoard(done.board)
  /\ units' = done.units
  /\ run' = done.run
  /\ last' = SetupDone(done)

\* create, up to the end of setupBattle
SetupBattleCall(cells, kinds, seeds) ==
  /\ SetWorldAfterSetup(SetupBattle(Created, cells, kinds, seeds))
  /\ ops' = ops + 1
  /\ scene' = scene

\* create runs once, when the scene starts
NextSetup ==
  /\ last.op = "none"
  /\ \E chosen \in SpawnChoices(BeforeSpawn) :
       \E kinds \in [1..Cardinality(chosen) -> SpawnedKinds] :
         \E seeds \in SeedsFor(SpawnEnemies(BeforeSpawn,
                                            CellsAt(BeforeSpawn.board, chosen), kinds, 1)) :
           SetupBattleCall(CellsAt(BeforeSpawn.board, chosen), kinds, seeds)

SpecSetup == InitSetup /\ [][NextSetup]_vars

----------------------------------------------------------------------------
(* setupBattle against its description.  Pieces are looked up on the grid. *)

SetUp == last.op = "setupBattle"

\* the cells of b holding a piece of `team`
TeamCells(b, U, team) ==
  {p \in InBounds(b) : Cell(b, p) # Null /\ U[Cell(b, p)].team = team}

PiecesOn(b) == {Cell(b, p) : p \in OccupiedCells(b)}

\* C12: after setupBattle, when player pieces stand on the board, at least
\* one of them has a legal move.
SetupIsSolvable ==
  (SetUp /\ TeamCells(Board, units, PLAYER) # {}) =>
    \E p \in TeamCells(Board, units, PLAYER) : GetValidMoves(Board, units, p) # <<>>

\* the Unit objects of the roster
Roster == {run.playerUnits[i] : i \in 1..Len(run.playerUnits)}

\* the Unit objects of `team` standing on the board
PiecesOf(team) == {Cell(Board, p) : p \in TeamCells(Board, units, team)}

\* C31: when setupBattle has run, the player pieces on the board are the
\* pieces of the roster, whatever the size of the roster.
RosterIsOnBoard == SetUp => PiecesOf(PLAYER) = Roster

\* the cells where an enemy King stands
EnemyKings ==
  {p \in TeamCells(Board, units, ENEMY) : units[Cell(Board, p)].type = KING}

\* the middle cell of the top row, where spawnEnemyUnits puts the boss King
KingPos == Pos(0, cols \div 2)

\* the board as the spawn loop left it, before any relocation
Spawned == IF last.log # <<>> THEN last.log[1].before ELSE last.reach

EnemyUnits == {u \in 1..Len(units) : units[u].team = ENEMY}

\* C37: when setupBattle has run, a stage that is a multiple of 4 has
\* exactly one enemy King on the board, on the middle cell of the top row,
\* any other stage has none, and the spawn loop has put every enemy piece
\* on a cell of its own in the top two rows.
BossKingAsDescribed ==
  SetUp =>
    /\ IsBossStage(run) <=> run.currentStage % 4 = 0
    /\ EnemyKings = (IF run.currentStage % 4 = 0 THEN {KingPos} ELSE {})
    /\ \A p \in TeamCells(Spawned.board, Spawned.units, ENEMY) : p.row \in {0, 1}
    /\ Cardinality(TeamCells(Spawned.board, Spawned.units, ENEMY))
         = Cardinality(EnemyUnits)

\* a setup whose only player pieces are pawns, one of them with an enemy
\* piece right in front of it
SetUpWithBlockedPawn ==
  /\ SetUp
  /\ \A p \in TeamCells(Board, units, PLAYER) : units[Cell(Board, p)].type = PAWN
  /\ \E p \in TeamCells(Board, units, PLAYER) :
       Pos(p.row - 1, p.col) \in TeamCells(Board, units, ENEMY)

\* every player pawn of b has an enemy piece in its own or a neighbouring
\* column
LanesCovered(b, U) ==
  \A p \in TeamCells(b, U, PLAYER) :
    U[Cell(b, p)].type = PAWN =>
      \E e \in TeamCells(b, U, ENEMY) : Abs(e.col - p.col) <= 1

\* C13: on the board ensureReachability leaves, if there is an enemy piece,
\* every player pawn at column C has an enemy piece in column C-1, C or
\* C+1, all pawns at once.
ReachabilityForAllPawns ==
  (SetUp /\ TeamCells(last.reach.board, last.reach.units, ENEMY) # {}) =>
    LanesCovered(last.reach.board, last.reach.units)

\* the first column of C+1, C, C-1 that is on the board and has an empty
\* cell above row `row`
FirstFreeColumn(b, col, row) ==
  LET free(c) == c >= 0 /\ c < b.cols
                   /\ \E r \in 0..(row - 1) : Cell(b, Pos(r, c)) = Null
  IN IF free(col + 1) THEN col + 1 ELSE IF free(col) THEN col ELSE col - 1

\* the enemy pieces of b in the order of the scan ensureReachability started
\* with
FirstClosest(b, U, enemyUnits, col, enemy) ==
  \E j \in 1..Len(enemyUnits) :
    /\ enemyUnits[j] = enemy
    /\ \A k \in 1..Len(enemyUnits) :
         Abs(U[enemyUnits[k]].position.col - col) >= Abs(U[enemy].position.col - col)
    /\ \A k \in 1..(j - 1) :
         Abs(U[enemyUnits[k]].position.col - col) > Abs(U[enemy].position.col - col)

RelocationAsDescribed(rel) ==
  LET b == rel.before.board
      U == rel.before.units
      a == rel.after.board
      pawnPos == U[rel.pawn].position
  IN /\ rel.to # NoPosition
     /\ ~(\E e \in TeamCells(b, U, ENEMY) : Abs(e.col - pawnPos.col) <= 1)
     /\ U[rel.enemy].team = ENEMY
     /\ Cell(b, rel.from) = rel.enemy
     /\ FirstClosest(b, U, rel.enemyUnits, pawnPos.col, rel.enemy)
     /\ Cell(b, rel.to) = Null
     /\ rel.to.col = FirstFreeColumn(b, pawnPos.col, pawnPos.row)
     /\ rel.to.row < pawnPos.row
     /\ rel.captured = Null
     /\ \A p \in InBounds(b) :
          Cell(a, p) = (IF p = rel.to THEN rel.enemy
                        ELSE IF p = rel.from THEN Null ELSE Cell(b, p))
     /\ Cardinality(TeamCells(a, rel.after.units, ENEMY))
          = Cardinality(TeamCells(b, U, ENEMY))
     /\ Cardinality(TeamCells(a, rel.after.units, PLAYER))
          = Cardinality(TeamCells(b, U, PLAYER))

\* C14: every relocation ensureReachability makes for a player pawn at
\* column C with no enemy in columns C-1..C+1 moves exactly one enemy piece,
\* the first of the enemy list at the minimum column distance to C, to a
\* cell that was empty, in the first of the columns C+1, C, C-1 that is on
\* the board and has an empty cell above the pawn, in a row smaller than
\* the pawn's; nothing is captured and the numbers of enemy and of player
\* pieces on the board stay the same.
RelocationsAsDescribed ==
  \A i \in 1..Len(last.log) : RelocationAsDescribed(last.log[i])

\* Scenario D: a pawn at column 2 of a 5-wide board, every enemy at column
\* 4, one of them relocated into column 3
ScenarioD ==
  /\ SetUp
  /\ Len(last.log) = 1
  /\ last.log[1].before.board.cols = 5
  /\ last.log[1].before.units[last.log[1].pawn].position.col = 2
  /\ \A e \in TeamCells(last.log[1].before.board, last.log[1].before.units, ENEMY) :
       e.col = 4
  /\ last.log[1].to.col = 3

----------------------------------------------------------------------------
(* The repair specification: a default board holding the pieces of one of  *)
(* FixPositions, every piece on a cell of its own, under one call of       *)
(* fixUnsolvablePosition or of ensureSolvability with any seed for the     *)
(* shuffle and the pick.  last.before is the board the call was given,     *)
(* last.flag what fixUnsolvablePosition returned or whether                 *)
(* ensureSolvability gave up, last.count the attempts counted.             *)

\* a player Pawn anywhere with one enemy piece anywhere, or with two enemy
\* pieces on the rows they are spawned on
FixPositions ==
  {<<Piece(PAWN, PLAYER, AnyCell), Piece(enemy, ENEMY, AnyCell)>> :
     enemy \in {ROOK, PAWN}}
  \cup
  {<<Piece(PAWN, PLAYER, AnyCell), Piece(ROOK, ENEMY, EnemyCells),
     Piece(KNIGHT, ENEMY, EnemyCells)>>}

Seeds == 0..(DefaultRows - 2)

InitFix ==
  /\ \E pieces \in FixPositions :
       \E where \in [1..Len(pieces) -> AnyCell] :
         /\ \A i \in 1..Len(where) : where[i] \in pieces[i].cells
         /\ \A i, j \in 1..Len(where) : where[i] = where[j] => i = j
         /\ InitPlaced(PlaceAll(EmptyBoard(DefaultRows, DefaultCols),
                                [i \in 1..Len(where) |-> Standing(pieces[i], where[i])],
                                where, 1))
  /\ scene = NewScene
  /\ run = NewRunState
  /\ last = NoCall
  /\ ops = 0

Repaired(op, fix, count, flag) ==
  /\ SetBoard(fix.board)
  /\ units' = fix.units
  /\ last' = [NoCall EXCEPT !.op = op, !.before = Before(World),
                            !.count = count, !.flag = flag]
  /\ ops' = ops + 1
  /\ UNCHANGED <<scene, run>>

FixUnsolvablePositionCall(seed) ==
  /\ last.op = "none"
  /\ \E fix \in {FixUnsolvablePosition(Board, units, seed)} :
       Repaired("fixUnsolvablePosition", fix, 0, fix.fixed)

EnsureSolvabilityCall(seed) ==
  /\ last.op = "none"
  /\ \E done \in {EnsureSolvability(NewSetup(Board, units, run), seed)} :
       Repaired("ensureSolvability", done, done.attempts, done.gaveUp)

NextFix ==
  \E seed \in Seeds :
    \/ FixUnsolvablePositionCall(seed)
    \/ EnsureSolvabilityCall(seed)

SpecFix == InitFix /\ [][NextFix]_vars

\* the cells of the world w holding a piece of `team`, with the piece
HeldBy(w, team) ==
  {<<p, Cell(w.board, p)>> : p \in TeamCells(w.board, w.units, team)}

RepairCalled == last.op \in {"fixUnsolvablePosition", "ensureSolvability"}

----------------------------------------------------------------------------
(* The range specification: the square board of a run after up to          *)
(* MaxPurchases board expansions, holding one sliding piece on a corner    *)
(* and at most one other piece on a cell of its rank, file or diagonal,    *)
(* under a call of getValidMoves for the cell of the sliding piece.        *)

\* the sides a board can have: expandBoardRows(1) and expandBoardCols(1)
\* per purchase
Sides == {DefaultRows + k : k \in 0..MaxPurchases}

Corners(side) == {Pos(0, 0), Pos(side - 1, side - 1)}

\* the cells a sliding piece on `at` can see on an empty board
InLine(side, at) ==
  {q \in InBounds(EmptyBoard(side, side)) \ {at} :
     \/ q.row = at.row
     \/ q.col = at.col
     \/ Abs(q.row - at.row) = Abs(q.col - at.col)}

InitRange ==
  /\ \E side \in Sides : \E team \in Teams : \E subject \in Sliders(team) :
       \E at \in Corners(side) :
         \/ InitPlaced(PlaceSubjectOn(EmptyBoard(side, side), subject, at))
         \/ \E blocker \in Blockers : \E other \in InLine(side, at) :
              InitPlaced(PlaceBlocker(PlaceSubjectOn(EmptyBoard(side, side),
                                                     subject, at),
                                      blocker, other))
  /\ last = NoCall
  /\ ops = 0
  /\ scene = NewScene
  /\ run = NewRunState

NextRange == \E pos \in {units[1].position} : GetValidMovesCall(pos)

SpecRange == InitRange /\ [][NextRange]_vars

\* the steps from p to q along a rank, a file or a diagonal
StepsBetween(p, q) ==
  IF Abs(p.row - q.row) > Abs(p.col - q.col)
  THEN Abs(p.row - q.row) ELSE Abs(p.col - q.col)

\* the piece asked about with the EXTRA_RANGE buff if it has none, without
\* it if it has it
WithOtherRange(unit) ==
  IF HasBuff(unit, "EXTRA_RANGE") THEN RemoveBuff(unit, "EXTRA_RANGE")
  ELSE Buffed(unit, "EXTRA_RANGE")

\* the legal moves from the cell asked about, were the buff the other way
MovesWithOtherRange ==
  LET moves == GetValidMoves(Board,
                             [units EXCEPT ![AskedUnit] = WithOtherRange(@)],
                             last.pos)
  IN {moves[i] : i \in 1..Len(moves)}

\* no ray of the board is longer than 8 cells
ShortRays(b) == b.rows <= 9 /\ b.cols <= 9

\* C34: no legal destination of a Rook, Bishop or Queen is more than 8
\* steps from its cell, or more than 10 steps with the EXTRA_RANGE buff,
\* however large the board; on a board whose rays are at most 8 cells long
\* the piece has the same legal moves with the buff as without it.
RangeIsCapped ==
  AskedSlider =>
    /\ \A m \in MoveSet : StepsBetween(last.pos, m) <= RangeCap(units[AskedUnit])
    /\ ShortRays(Board) => MoveSet = MovesWithOtherRange

\* a buffed piece asked about on a board with an open ray of more than 10
\* cells: it reaches the tenth and not the eleventh
TenthCellReached ==
  /\ AskedSlider
  /\ HasBuff(units[AskedUnit], "EXTRA_RANGE")
  /\ \E dir \in Directions :
       /\ Step(last.pos, dir, 10) \in MoveSet
       /\ IsEmptyCell(Board, Step(last.pos, dir, 11))
       /\ Step(last.pos, dir, 11) \notin MoveSet

----------------------------------------------------------------------------
(* PathSelectionScene.ts: ShopScene, and BlacksmithScene.  A shop is the   *)
(* record of what its methods read and write: the RunState, the Unit       *)
(* objects and the Unit selected in the blacksmith (Null: none).           *)

\* an item without a pieceType
NoPieceType == "NONE"

Item(id, cost, type, pieceType) ==
  [id |-> id, cost |-> cost, type |-> type, pieceType |-> pieceType]

\* generateShopItems: the items the four on offer are taken from
ShopItems ==
  { Item("pawn", 50, "PIECE", PAWN),
    Item("knight", 150, "PIECE", KNIGHT),
    Item("rook", 200, "PIECE", ROOK),
    Item("bishop", 180, "PIECE", BISHOP),
    Item("board_expansion", 120, "BOARD_EXPANSION", NoPieceType) }

Upgrade(id, cost, buff) == [id |-> id, cost |-> cost, buff |-> buff]

\* applicableTo of the upgrade with that buff
ApplicableTo(buff) ==
  CASE buff = "SHIELD" -> {PAWN, ROOK, KNIGHT, BISHOP, QUEEN, KING}
    [] buff = "BACKWARD_MOVEMENT" -> {PAWN}
    [] buff = "EXTRA_RANGE" -> {ROOK, BISHOP, QUEEN}
    [] buff = "DOUBLE_MOVE" -> {KNIGHT}
    [] buff = "FIRE_DAMAGE" -> {PAWN, ROOK, KNIGHT, BISHOP, QUEEN}

\* generateUpgradeOptions: the upgrades the three on offer are taken from
UpgradeOptions ==
  { Upgrade("shield", 80, "SHIELD"),
    Upgrade("backward_movement", 60, "BACKWARD_MOVEMENT"),
    Upgrade("extra_range", 100, "EXTRA_RANGE"),
    Upgrade("double_move", 120, "DOUBLE_MOVE"),
    Upgrade("fire_damage", 90, "FIRE_DAMAGE") }

Shop(r, U, selectedUnit) == [run |-> r, units |-> U, selectedUnit |-> selectedUnit]

\* a purchase that hands over the first piece of the roster once more
DeliverFirstAgain(sh, item) ==
  IF item.type = "PIECE" /\ item.pieceType # NoPieceType /\ sh.run.playerUnits # <<>>
  THEN [sh EXCEPT !.run = AddRosterUnit(@, Head(sh.run.playerUnits))]
  ELSE sh

\* purchaseItem past spendGold: createPieceFromType and addUnit, or the
\* expansion of the board
Deliver(sh, item) ==
  IF item.type = "PIECE" /\ item.pieceType # NoPieceType
  THEN [sh EXCEPT !.units = Append(@, NewUnit(item.pieceType, PLAYER, Pos(0, 0))),
                  !.run = AddRosterUnit(@, Len(sh.units) + 1)]
  ELSE IF item.type = "BOARD_EXPANSION"
  THEN [sh EXCEPT !.run = ExpandBoard(@, 1)]
  ELSE sh

\* purchaseItem, `spent` being what spendGold(item.cost) returned and left
PurchasePaid(sh, item, spent) ==
  IF ~spent.ok THEN sh ELSE Deliver([sh EXCEPT !.run = spent.run], item)

PurchaseItem(sh, item) == PurchasePaid(sh, item, SpendGold(sh.run, item.cost))

\* applyUpgrade past the test of selectedUnit
UpgradePaid(sh, upgrade, spent) ==
  IF ~spent.ok THEN sh
  ELSE [sh EXCEPT !.run = spent.run,
                  !.units[sh.selectedUnit] = Buffed(@, upgrade.buff),
                  !.selectedUnit = Null]

ApplyUpgrade(sh, upgrade) ==
  IF sh.selectedUnit = Null THEN sh
  ELSE UpgradePaid(sh, upgrade, SpendGold(sh.run, upgrade.cost))

----------------------------------------------------------------------------
(* The gold specification: a new RunState with a roster of a Pawn and a    *)
(* Rook, under at most MaxGoldCalls calls of addGold and spendGold with    *)
(* the amounts of Amounts, of purchaseItem with any item, of the           *)
(* blacksmith's selectUnit with a Unit of the roster and of applyUpgrade   *)
(* with any upgrade.  scene.selectedUnit is the blacksmith's selectedUnit; *)
(* last records the call, its amount or cost (count), what spendGold       *)
(* returned (ok) and the shop it started with (before).                    *)

Amounts == {0, 50, 200}

InitGold ==
  /\ InitPlaced([board |-> EmptyBoard(DefaultRows, DefaultCols),
                 units |-> <<NewUnit(PAWN, PLAYER, Pos(0, 0)),
                             NewUnit(ROOK, PLAYER, Pos(0, 0))>>])
  /\ run = [NewRunState EXCEPT !.playerUnits = <<1, 2>>]
  /\ scene = NewScene
  /\ last = NoCall
  /\ ops = 0

TheShop == Shop(run, units, scene.selectedUnit)

\* a call that started with the shop TheShop and leaves the shop sh
ShopCall(op, cost, ok, sh) ==
  /\ ops < MaxGoldCalls
  /\ ops' = ops + 1
  /\ run' = sh.run
  /\ units' = sh.units
  /\ scene' = [scene EXCEPT !.selectedUnit = sh.selectedUnit]
  /\ last' = [NoCall EXCEPT !.op = op, !.count = cost, !.ok = ok,
                            !.before = TheShop]
  /\ UNCHANGED <<grid, rows, cols>>

AddGoldCall(amount) ==
  ShopCall("addGold", amount, FALSE, [TheShop EXCEPT !.run = AddGold(@, amount)])

SpendGoldCall(amount) ==
  ShopCall("spendGold", amount, SpendGold(run, amount).ok,
           [TheShop EXCEPT !.run = SpendGold(run, amount).run])

PurchaseItemCall(item) ==
  ShopCall("purchaseItem", item.cost, SpendGold(run, item.cost).ok,
           PurchaseItem(TheShop, item))

SelectUnitCall(unit) ==
  ShopCall("selectUnit", 0, FALSE, [TheShop EXCEPT !.selectedUnit = unit])

ApplyUpgradeCall(upgrade) ==
  ShopCall("applyUpgrade", upgrade.cost,
           scene.selectedUnit # Null /\ SpendGold(run, upgrade.cost).ok,
           ApplyUpgrade(TheShop, upgrade))

NextGold ==
  \/ \E amount \in Amounts : AddGoldCall(amount)
  \/ \E amount \in Amounts : SpendGoldCall(amount)
  \/ \E item \in ShopItems : PurchaseItemCall(item)
  \/ \E i \in 1..Len(run.playerUnits) : SelectUnitCall(run.playerUnits[i])
  \/ \E upgrade \in UpgradeOptions : ApplyUpgradeCall(upgrade)

SpecGold == InitGold /\ [][NextGold]_vars

\* what a purchase or an upgrade can change besides the gold
Goods(sh) ==
  [roster |-> sh.run.playerUnits,
   rows |-> sh.run.boardRows,
   cols |-> sh.run.boardCols,
   buffs |-> [u \in 1..Len(sh.units) |-> sh.units[u].buffs]]

\* C35: the gold is never negative; spendGold(a) returns true and takes
\* exactly a when a is at most the gold, and returns false and takes nothing
\* otherwise; purchaseItem and applyUpgrade change the roster, the board
\* dimensions or a piece's buffs only when their spendGold succeeded, and
\* then the gold is down by the cost.
GoldIsNeverOverspent ==
  /\ run.gold >= 0
  /\ last.op = "spendGold" =>
       /\ last.ok = (last.count <= last.before.run.gold)
       /\ run.gold = last.before.run.gold - (IF last.ok THEN last.count ELSE 0)
  /\ last.op \in {"purchaseItem", "applyUpgrade"} =>
       /\ Goods(TheShop) # Goods(last.before) =>
            last.ok /\ last.count <= last.before.run.gold
       /\ run.gold = last.before.run.gold - (IF last.ok THEN last.count ELSE 0)

\* a purchase refused for lack of gold after one that was paid for
PurchaseRefused ==
  /\ last.op = "purchaseItem"
  /\ ~last.ok
  /\ last.count > run.gold
  /\ run.gold < NewRunState.gold
  /\ Goods(TheShop) = Goods(last.before)

----------------------------------------------------------------------------
(* The run specification: a run from the first BattleScene on, through     *)
(* PathSelectionScene, ShopScene, BlacksmithScene and GameOverScene, for   *)
(* at most MaxRunSteps steps (ops counts them).  scene.start(key) is taken *)
(* together with the init and create of the scene it starts.  Of a battle  *)
(* the model keeps the player side: the board as spawnPlayerUnits leaves   *)
(* it and the events that write to the RunState, which are the capture of  *)
(* a player piece, the promotion of a Pawn that reaches the top row, the   *)
(* victory and the defeat; the enemy side and the legality of moves are    *)
(* the subject of the battle specification.  scene.key is the running      *)
(* scene and scene.selectedUnit the blacksmith's selectedUnit, which that  *)
(* scene object keeps from one visit to the next.  last.before is the      *)
(* RunState and the Unit objects a handler started with or, for create,    *)
(* was given.                                                              *)

RunScene(key, selectedUnit) ==
  [key |-> key, selectedUnit |-> selectedUnit, active |-> TRUE]

\* BattleScene.create up to spawnPlayerUnits, for the RunState r
StartBattle(r, U) ==
  SpawnPlayerUnits(NewSetup(EmptyBoard(r.boardRows, r.boardCols), U, r))

RunWorld == [board |-> Board, units |-> units, scene |-> scene, run |-> run]

Given(r, U) == [run |-> r, made |-> Len(U)]

RunStep(op, before, key, w) ==
  /\ ops < MaxRunSteps
  /\ SetBoard(w.board)
  /\ units' = w.units
  /\ run' = w.run
  /\ scene' = RunScene(key, w.scene.selectedUnit)
  /\ last' = [NoCall EXCEPT !.op = op, !.before = before]
  /\ ops' = ops + 1

InitRun ==
  /\ InitPlaced(StartBattle(NewRunState, <<>>))
  /\ run = StartBattle(NewRunState, <<>>).run
  /\ scene = RunScene("BattleScene", Null)
  /\ last = NoCall
  /\ ops = 0

\* scene.start('BattleScene', { runState: r })
Create(op, r) ==
  /\ \E st \in {StartBattle(r, units)} :
       RunStep(op, Given(r, units), "BattleScene",
               [RunWorld EXCEPT !.board = st.board, !.units = st.units,
                                !.run = st.run])

\* executeMove of an enemy piece to the cell p of a player piece, and
\* checkBattleEnd
PlayerPieceCaptured(p) ==
  /\ scene.key = "BattleScene"
  /\ \E w \in {ApplyCapture(RunWorld, [board |-> RemoveUnit(Board, p).board,
                                         units |-> units,
                                         ret |-> Cell(Board, p)])} :
       RunStep("capture", Given(run, units),
               IF GetUnitsByTeam(w.board, w.units, PLAYER) = <<>>
               THEN "GameOverScene" ELSE "BattleScene",
               w)

\* executeMove of the player Pawn on p to the empty cell `to` of the top
\* row, `to` being the cell of its column
PawnPromoted(p, to, promotedType) ==
  /\ scene.key = "BattleScene"
  /\ units[Cell(Board, p)].type = PAWN
  /\ Cell(Board, to) = Null
  /\ \E moved \in {MoveUnit(Board, units, p, to)} :
       RunStep("promotion", Given(run, units), "BattleScene",
               CheckForPromotion([RunWorld EXCEPT !.board = moved.board,
                                                  !.units = moved.units],
                                 Cell(Board, p), to, promotedType))

\* checkBattleEnd finds the battle won: handleVictory, and the init of
\* PathSelectionScene
BattleWon ==
  /\ scene.key = "BattleScene"
  /\ GetUnitsByTeam(Board, units, PLAYER) # <<>>
  /\ RunStep("handleVictory", Given(run, units), "PathSelectionScene",
             [RunWorld EXCEPT !.run = SetGamePhase(HandleVictory(RunWorld).run,
                                                   "PATH_SELECTION")])

SelectPath(pathType) ==
  /\ scene.key = "PathSelectionScene"
  /\ RunStep("selectPath", Given(run, units),
             IF pathType = "SHOP" THEN "ShopScene" ELSE "BlacksmithScene",
             [RunWorld EXCEPT !.run = SetGamePhase(@, pathType)])

InShop(sh) ==
  [RunWorld EXCEPT !.run = sh.run, !.units = sh.units,
                   !.scene.selectedUnit = sh.selectedUnit]

\* pointerdown on the card of an item the player could afford when the
\* card was made
ItemClicked(item) ==
  /\ scene.key = "ShopScene"
  /\ run.gold >= item.cost
  /\ RunStep("purchaseItem", Given(run, units), "ShopScene",
             InShop(PurchaseItem(TheShop, item)))

\* pointerdown on the card of a Unit of the roster
UnitClicked(unit) ==
  /\ scene.key = "BlacksmithScene"
  /\ RunStep("selectUnit", Given(run, units), "BlacksmithScene",
             [RunWorld EXCEPT !.scene.selectedUnit = unit])

\* pointerdown on the card of an upgrade that was available when the card
\* was made
UpgradeClicked(upgrade) ==
  /\ scene.key = "BlacksmithScene"
  /\ run.gold >= upgrade.cost
  /\ scene.selectedUnit # Null
  /\ units[scene.selectedUnit].type \in ApplicableTo(upgrade.buff)
  /\ RunStep("applyUpgrade", Given(run, units), "BlacksmithScene",
             InShop(ApplyUpgrade(TheShop, upgrade)))

ContinueToNextBattle ==
  /\ scene.key \in {"ShopScene", "BlacksmithScene"}
  /\ Create("continueToNextBattle", run)

RestartGame ==
  /\ scene.key = "GameOverScene"
  /\ Create("restartGame", NewRunState)

NextRun ==
  \/ \E p \in TeamCells(Board, units, PLAYER) : PlayerPieceCaptured(p)
  \/ \E p \in TeamCells(Board, units, PLAYER) :
       \E promotedType \in PromotionTypes :
         PawnPromoted(p, Pos(0, p.col), promotedType)
  \/ BattleWon
  \/ \E pathType \in {"SHOP", "BLACKSMITH"} : SelectPath(pathType)
  \/ \E item \in ShopItems : ItemClicked(item)
  \/ \E i \in 1..Len(run.playerUnits) : UnitClicked(run.playerUnits[i])
  \/ \E upgrade \in UpgradeOptions : UpgradeClicked(upgrade)
  \/ ContinueToNextBattle
  \/ RestartGame

SpecRun == InitRun /\ [][NextRun]_vars

\* the Unit objects of the roster the last handler started with
RosterBefore ==
  {last.before.run.playerUnits[i] : i \in 1..Len(last.before.run.playerUnits)}

\* the Unit objects created by the last handler
Fresh == (last.before.made + 1)..Len(units)

\* C36: the roster holds no piece twice; a piece joins it only as the
\* starting Pawn of an empty roster when a battle is set up, as the piece a
\* Pawn is promoted to, or as the piece of a shop purchase, and is then a
\* Unit created by that step.
RosterIsASet ==
  /\ Cardinality(Roster) = Len(run.playerUnits)
  /\ (last.op # "none" /\ Roster \ RosterBefore # {}) =>
       /\ Roster \ RosterBefore \subseteq Fresh
       /\ Cardinality(Roster \ RosterBefore) = 1
       /\ \/ /\ last.op \in {"continueToNextBattle", "restartGame"}
             /\ RosterBefore = {}
             /\ \A u \in Roster : units[u].type = PAWN
          \/ last.op = "promotion"
          \/ last.op = "purchaseItem"

\* a purchased piece has joined a roster that holds a promoted piece
PurchasedAfterPromotion ==
  /\ last.op = "purchaseItem"
  /\ Roster \ RosterBefore # {}
  /\ \E u \in RosterBefore : units[u].type # PAWN

\* the gamePhase that names a scene
PhaseOf(key) ==
  CASE key = "BattleScene" -> "BATTLE"
    [] key = "PathSelectionScene" -> "PATH_SELECTION"
    [] key = "ShopScene" -> "SHOP"
    [] key = "BlacksmithScene" -> "BLACKSMITH"
    [] key = "GameOverScene" -> "GAME_OVER"

\* C38: RunState.gamePhase names the scene that is running.
PhaseNamesScene == run.gamePhase = PhaseOf(scene.key)

====
